---- MODULE Spec2Model ----
(***************************************************************************)
(* Verification model of the aggre-gate order-book aggregator.             *)
(*                                                                         *)
(* Prices and quantities are f64 in the source.  They are modelled as     *)
(* naturals; floating-point rounding is outside the model.                *)
(***************************************************************************)
EXTENDS Integers, Sequences, FiniteSets, TLC

(***************************************************************************)
(* Bounds of the exploration.                                              *)
(***************************************************************************)
MaxBatch == 3
MaxDepthArg == 2
MaxWork == 4
MaxSummaries == 2
MaxId == 3
MaxEvents == 4
WsCap == 2
MaxUpdates == 2
MaxTime == 1
QueueCap == 1
SummaryCap == 1
MaxTicks == 4
MaxSymbolLen == 2
MaxClients == 3
MaxPublished == 4
max_connections == 2

(* format!("{:.8}") keeps 8 decimals; one key step is KeyUnit price units *)
KeyUnit == 10

BookExchanges == {"binance", "coinbase"}
BookPrices == {10, 20, 30}
SharedPrices == {20}
Quantities == {0, 1, 2}

\* the levels the calls draw from: binance quotes every price, coinbase
\* quotes the shared price as well
Levels ==
    {l \in [price : BookPrices, quantity : Quantities, exchange : BookExchanges] :
        l.exchange = "binance" \/ l.price \in SharedPrices}

NoLevel == [price |-> 0, quantity |-> 0, exchange |-> "none"]

VARIABLES
    bt_bids,        \* BTreeOrderBook.bids : BTreeSet<Bid>, in iteration order
    bt_asks,        \* BTreeOrderBook.asks : BTreeSet<Ask>, in iteration order
    hm_bids,        \* HashMapOrderBook.bids : HashMap<String, Bid>
    hm_asks,        \* HashMapOrderBook.asks : HashMap<String, Ask>
    hm_bid_prices,  \* HashMapOrderBook.bid_prices : Vec<f64>
    hm_ask_prices,  \* HashMapOrderBook.ask_prices : Vec<f64>
    history,        \* the calls made on the two books so far, with their arguments
    work            \* calls and levels applied so far

bookVars == <<bt_bids, bt_asks, hm_bids, hm_asks, hm_bid_prices, hm_ask_prices, history, work>>

VARIABLES
    summaries,              \* detect_opportunities argument: TradingPair -> Vec<Summary>
    min_profit_threshold,   \* ArbitrageDetector.min_profit_threshold, in percent
    min_volume_threshold,   \* ArbitrageDetector.min_volume_threshold
    opportunities,          \* the Vec<ArbitrageOpportunity> returned
    detected                \* detect_opportunities has returned

arbVars == <<summaries, min_profit_threshold, min_volume_threshold, opportunities, detected>>

VARIABLES
    bn_reader,          \* position of the task of spawn_order_book_stream
    bn_ws,              \* messages queued in the ws_stream channel
    last_update_id,     \* local of the task of spawn_stream_processor
    bn_forwarded,       \* what the processor sent on price_level_tx, oldest first
    bn_log,             \* outcome of the last message the processor handled
    bn_gap,             \* history: a gap was met and no snapshot was sent since
    bn_events,          \* number of network events so far
    bn_failed_attempts, \* history: failed connection attempts since the last successful one
    bn_read             \* history: the text frames read from the websocket, oldest first

bnVars == <<bn_reader, bn_ws, last_update_id, bn_forwarded, bn_log, bn_gap, bn_events,
            bn_failed_attempts, bn_read>>

VARIABLES
    by_reader,          \* position of the task of spawn_websocket_stream
    by_ws,              \* messages queued in the ws channel
    is_initialized,     \* local of handle_websocket_messages
    by_forwarded,       \* what the handler sent on price_level_tx, oldest first
    by_log,             \* outcome of the last message the handler handled
    by_events           \* number of network events so far

byVars == <<by_reader, by_ws, is_initialized, by_forwarded, by_log, by_events>>

VARIABLES
    enabled,            \* config.enabled_exchanges()
    started,            \* start() has run
    stop_result,        \* what the last stop() returned
    task,               \* status of every spawned task
    shutdown_rx,        \* per task: a shutdown message waits in its receiver
    price_level_queue,  \* per exchange: the mpsc channel of PriceLevelUpdate
    conn_update,        \* per exchange: the update its connector is sending
    now,                \* the clock read by Utc::now()
    summary_channel,    \* every Summary sent on the summary broadcast, oldest first
    subscribed,         \* an outside receiver of the summary broadcast exists
    agg_read,           \* how many summaries the aggregation processor has received
    agg_summaries,      \* Aggregator.summaries
    health_status,      \* Aggregator.health_status
    update_count,       \* per exchange: local of the price level processor
    arb_next_tick,      \* next tick of the arbitrage detector's interval
    health_next_tick,   \* next tick of the health monitor's interval
    produced,           \* number of updates the connectors have produced
    processed,          \* history: the updates whose Summary was published, oldest first
    metrics,            \* Aggregator.metrics
    arbitrage_channel   \* every opportunity sent on the arbitrage broadcast, oldest first

aggVars == <<enabled, started, stop_result, task, shutdown_rx, price_level_queue,
             conn_update, now, summary_channel, subscribed, agg_read, agg_summaries,
             health_status, update_count, arb_next_tick, health_next_tick, produced, processed,
             metrics, arbitrage_channel>>

VARIABLES
    txt_pair,            \* a TradingPair
    txt_pair_text,       \* its Display form, once written
    txt_pair_parsed,     \* the result of parsing that text, once parsed
    txt_exchange,        \* an Exchange
    txt_exchange_text,   \* its Display form, once written
    txt_exchange_parsed  \* the result of parsing that text, once parsed

txtVars == <<txt_pair, txt_pair_text, txt_pair_parsed,
             txt_exchange, txt_exchange_text, txt_exchange_parsed>>

VARIABLES
    connection_count,   \* the AtomicUsize of WebSocketServer::start
    srv_conn,           \* per client: where its connection stands
    published,          \* number of summaries sent on the summary broadcast so far
    srv_read,           \* number of summaries the server's summary_receiver is past
    broadcast_task,     \* the task forwarding summaries: "running" or "ended"
    delivered           \* per client: the summaries put on its channel, oldest first

srvVars == <<connection_count, srv_conn, published, srv_read, broadcast_task, delivered>>

VARIABLES
    con_pc,      \* per clone of the HashMapOrderBook: where its current call stands
    con_local,   \* per clone: the local of its current call (the index entry read)
    con_result   \* per clone: what its last get_best_bid returned

conVars == <<con_pc, con_local, con_result>>

vars == <<bookVars, arbVars, bnVars, byVars, aggVars, txtVars, srvVars, conVars>>

(***************************************************************************)
(* Orderings of the level types (aggregator-core/src/types.rs).           *)
(* Ord for Bid / Ask compares the price only: two levels with the same    *)
(* price are Equal whatever their exchange.                                *)
(***************************************************************************)
BidBefore(a, b) == a.price > b.price

AskBefore(a, b) == a.price < b.price

OrdEqual(a, b) == a.price = b.price

(***************************************************************************)
(* BTreeSet operations used by btree_set.rs.                               *)
(***************************************************************************)
SetRetainOthers(set, lvl) ==
    SelectSeq(set, LAMBDA b : ~(b.price = lvl.price /\ b.exchange = lvl.exchange))

\* BTreeSet::insert leaves the set as it is when an equal element is present
SetInsertBid(set, bid) ==
    IF \E i \in 1..Len(set) : OrdEqual(set[i], bid)
    THEN set
    ELSE LET pos == Cardinality({i \in 1..Len(set) : BidBefore(set[i], bid)})
         IN SubSeq(set, 1, pos) \o <<bid>> \o SubSeq(set, pos + 1, Len(set))

SetInsertAsk(set, ask) ==
    IF \E i \in 1..Len(set) : OrdEqual(set[i], ask)
    THEN set
    ELSE LET pos == Cardinality({i \in 1..Len(set) : AskBefore(set[i], ask)})
         IN SubSeq(set, 1, pos) \o <<ask>> \o SubSeq(set, pos + 1, Len(set))

SetTake(set, n) == SubSeq(set, 1, IF n < Len(set) THEN n ELSE Len(set))

RECURSIVE BTreeApplyBids(_, _)
BTreeApplyBids(set, bids) ==
    IF bids = <<>> THEN set
    ELSE LET bid == Head(bids)
             kept == SetRetainOthers(set, bid)
         IN BTreeApplyBids(IF bid.quantity > 0 THEN SetInsertBid(kept, bid) ELSE kept,
                           Tail(bids))

RECURSIVE BTreeApplyAsks(_, _)
BTreeApplyAsks(set, asks) ==
    IF asks = <<>> THEN set
    ELSE LET ask == Head(asks)
             kept == SetRetainOthers(set, ask)
         IN BTreeApplyAsks(IF ask.quantity > 0 THEN SetInsertAsk(kept, ask) ELSE kept,
                           Tail(asks))

BTree_update_bids(set, bids, max_depth) ==
    LET bid_set == BTreeApplyBids(set, bids)
    IN IF Len(bid_set) > max_depth THEN SetTake(bid_set, max_depth) ELSE bid_set

BTree_update_asks(set, asks, max_depth) ==
    LET ask_set == BTreeApplyAsks(set, asks)
    IN IF Len(ask_set) > max_depth THEN SetTake(ask_set, max_depth) ELSE ask_set

BTree_get_best_n_bids(set, n) == SetTake(set, n)

BTree_get_best_n_asks(set, n) == SetTake(set, n)

BTree_get_best_bid(set) == IF set = <<>> THEN NoLevel ELSE set[1]

BTree_get_best_ask(set) == IF set = <<>> THEN NoLevel ELSE set[1]

(***************************************************************************)
(* HashMapOrderBook (hashmap.rs).  A map is a function whose domain is    *)
(* the set of keys present.                                                *)
(***************************************************************************)
generate_key(price, exchange) == <<(2 * price + KeyUnit) \div (2 * KeyUnit), exchange>>

MapInsert(map, key, val) == [k \in DOMAIN map \cup {key} |-> IF k = key THEN val ELSE map[k]]

MapRemove(map, key) == [k \in DOMAIN map \ {key} |-> map[k]]

EmptyMap == [k \in {} |-> NoLevel]

\* the prices of the values, one entry per value, in ascending order
RECURSIVE SortedPrices(_, _)
SortedPrices(map, keys) ==
    IF keys = {} THEN <<>>
    ELSE LET k == CHOOSE x \in keys : \A y \in keys : map[x].price <= map[y].price
         IN <<map[k].price>> \o SortedPrices(map, keys \ {k})

Reverse(seq) == [i \in 1..Len(seq) |-> seq[Len(seq) + 1 - i]]

Truncate(seq, n) == SubSeq(seq, 1, IF n < Len(seq) THEN n ELSE Len(seq))

\* Vec::dedup: drops an element equal to the one before it
Dedup(seq) == SelectSeq([i \in 1..Len(seq) |-> IF i > 1 /\ seq[i] = seq[i - 1] THEN -1 ELSE seq[i]],
                        LAMBDA p : p # -1)

RECURSIVE HashMapApplyBids(_, _)
HashMapApplyBids(map, bids) ==
    IF bids = <<>> THEN map
    ELSE LET bid == Head(bids)
             key == generate_key(bid.price, bid.exchange)
         IN HashMapApplyBids(IF bid.quantity > 0 THEN MapInsert(map, key, bid) ELSE MapRemove(map, key),
                             Tail(bids))

\* a slip in the removal test: a zero quantity is stored like any other
RECURSIVE HashMapApplyAsks_KeepsZero(_, _)
HashMapApplyAsks_KeepsZero(map, asks) ==
    IF asks = <<>> THEN map
    ELSE LET ask == Head(asks)
             key == generate_key(ask.price, ask.exchange)
         IN HashMapApplyAsks_KeepsZero(IF ask.quantity >= 0 THEN MapInsert(map, key, ask) ELSE MapRemove(map, key),
                                       Tail(asks))

RECURSIVE HashMapApplyAsks(_, _)
HashMapApplyAsks(map, asks) ==
    IF asks = <<>> THEN map
    ELSE LET ask == Head(asks)
             key == generate_key(ask.price, ask.exchange)
         IN HashMapApplyAsks(IF ask.quantity > 0 THEN MapInsert(map, key, ask) ELSE MapRemove(map, key),
                             Tail(asks))

F64Max == 1000000

HashMap_update_bids(map, bids, max_depth) ==
    LET bid_map == HashMapApplyBids(map, bids)
    IN IF Cardinality(DOMAIN bid_map) > max_depth
       THEN LET prices == Truncate(Reverse(SortedPrices(bid_map, DOMAIN bid_map)), max_depth)
                min_price == IF prices = <<>> THEN 0 ELSE prices[Len(prices)]
            IN [k \in {x \in DOMAIN bid_map : bid_map[x].price >= min_price} |-> bid_map[k]]
       ELSE bid_map

HashMap_update_asks(map, asks, max_depth) ==
    LET ask_map == HashMapApplyAsks(map, asks)
    IN IF Cardinality(DOMAIN ask_map) > max_depth
       THEN LET prices == Truncate(SortedPrices(ask_map, DOMAIN ask_map), max_depth)
                max_price == IF prices = <<>> THEN F64Max ELSE prices[Len(prices)]
            IN [k \in {x \in DOMAIN ask_map : ask_map[x].price <= max_price} |-> ask_map[k]]
       ELSE ask_map

sort_bid_prices(map) == Dedup(Reverse(SortedPrices(map, DOMAIN map)))

sort_ask_prices(map) == Dedup(SortedPrices(map, DOMAIN map))

MapValues(map) == {map[k] : k \in DOMAIN map}

\* values().find(..) returns the first match in the map's iteration order,
\* which is unspecified: every stored level with that price is a possible result
HashMap_get_best_bid(map, bid_prices) ==
    IF bid_prices = <<>> THEN {NoLevel}
    ELSE LET found == {b \in MapValues(map) : b.price = bid_prices[1]}
         IN IF found = {} THEN {NoLevel} ELSE found

HashMap_get_best_ask(map, ask_prices) ==
    IF ask_prices = <<>> THEN {NoLevel}
    ELSE LET found == {a \in MapValues(map) : a.price = ask_prices[1]}
         IN IF found = {} THEN {NoLevel} ELSE found

\* the possible results of get_best_n_*: one level per listed price that is stored
HashMap_get_best_n(map, prices, n) ==
    LET taken == Truncate(prices, n)
        hit == SelectSeq(taken, LAMBDA p : \E b \in MapValues(map) : b.price = p)
    IN {r \in [1..Len(hit) -> MapValues(map)] : \A i \in 1..Len(hit) : r[i].price = hit[i]}

HashMap_get_best_n_bids(map, bid_prices, n) == HashMap_get_best_n(map, bid_prices, n)

HashMap_get_best_n_asks(map, ask_prices, n) == HashMap_get_best_n(map, ask_prices, n)

\* get_spread: the Option is a set of at most one value
BTree_get_spread(bids, asks) ==
    IF bids = <<>> \/ asks = <<>> THEN {}
    ELSE {BTree_get_best_ask(asks).price - BTree_get_best_bid(bids).price}

\* the possible results of get_spread, one per possible pair of best levels
HashMap_get_spread(bid_map, bid_prices, ask_map, ask_prices) ==
    {IF bid = NoLevel \/ ask = NoLevel THEN {} ELSE {ask.price - bid.price} :
        bid \in HashMap_get_best_bid(bid_map, bid_prices),
        ask \in HashMap_get_best_ask(ask_map, ask_prices)}

(***************************************************************************)
(* The order-book state machine: the same calls are made on a             *)
(* BTreeOrderBook and on a HashMapOrderBook.  One update carries a batch  *)
(* that is applied to the bid side by update_bids and to the ask side by  *)
(* update_asks.                                                            *)
(***************************************************************************)
InitBookVars ==
    /\ bt_bids = <<>>
    /\ bt_asks = <<>>
    /\ hm_bids = EmptyMap
    /\ hm_asks = EmptyMap
    /\ hm_bid_prices = <<>>
    /\ hm_ask_prices = <<>>
    /\ history = <<>>
    /\ work = 0

Update(levels, max_depth) ==
    /\ work + 1 + Len(levels) <= MaxWork
    /\ work' = work + 1 + Len(levels)
    /\ bt_bids' = BTree_update_bids(bt_bids, levels, max_depth)
    /\ bt_asks' = BTree_update_asks(bt_asks, levels, max_depth)
    /\ hm_bids' = HashMap_update_bids(hm_bids, levels, max_depth)
    /\ hm_asks' = HashMap_update_asks(hm_asks, levels, max_depth)
    /\ hm_bid_prices' = sort_bid_prices(hm_bids')
    /\ hm_ask_prices' = sort_ask_prices(hm_asks')
    /\ history' = Append(history, [op |-> "update", levels |-> levels, max_depth |-> max_depth])

Clear ==
    /\ work + 1 <= MaxWork
    /\ work' = work + 1
    /\ bt_bids' = <<>>
    /\ bt_asks' = <<>>
    /\ hm_bids' = EmptyMap
    /\ hm_asks' = EmptyMap
    /\ hm_bid_prices' = <<>>
    /\ hm_ask_prices' = <<>>
    /\ history' = Append(history, [op |-> "clear", levels |-> <<>>, max_depth |-> 0])

NextBook ==
    \/ \E n \in 0..MaxBatch :
           /\ work + 1 + n <= MaxWork
           /\ \E levels \in [1..n -> Levels], max_depth \in 0..MaxDepthArg : Update(levels, max_depth)
           /\ UNCHANGED <<arbVars, bnVars, byVars, aggVars, txtVars, srvVars, conVars>>
    \/ Clear /\ UNCHANGED <<arbVars, bnVars, byVars, aggVars, txtVars, srvVars, conVars>>

(***************************************************************************)
(* ArbitrageDetector::detect_opportunities (analysis-tools/arbitrage.rs).  *)
(* A Summary is modelled by its bids and asks; a percentage is kept as a  *)
(* fraction num / den.                                                     *)
(***************************************************************************)
ArbPairs == {"BTC/USDT"}
ArbExchanges == {"binance", "bybit"}
ArbBidPrices == {101, 102}
ArbAskPrices == {99, 100}
ArbQuantities == {1, 2}
ProfitThresholds == {1, 2}
VolumeThresholds == {1, 2}

\* the summaries of one venue: each side is empty or has a best level
VenueSummaries ==
    UNION {[bids : {<<>>} \cup {<<l>> : l \in [price : ArbBidPrices, quantity : ArbQuantities, exchange : {e}]},
            asks : {<<>>} \cup {<<l>> : l \in [price : ArbAskPrices, quantity : ArbQuantities, exchange : {e}]}]
           : e \in ArbExchanges}

\* the scan of lines 72-84: index of the summary holding the best bid so far
RECURSIVE ScanBestBid(_, _, _)
ScanBestBid(exchange_summaries, i, best) ==
    IF i > Len(exchange_summaries) THEN best
    ELSE LET summary == exchange_summaries[i]
         IN IF summary.bids # <<>> /\ (best = 0 \/ summary.bids[1].price > exchange_summaries[best].bids[1].price)
            THEN ScanBestBid(exchange_summaries, i + 1, i)
            ELSE ScanBestBid(exchange_summaries, i + 1, best)

\* a slip in the scan: the first summary with an ask is kept whatever follows
ScanBestAsk_FirstSeen(exchange_summaries, i, best) ==
    LET idx == {k \in 1..Len(exchange_summaries) : exchange_summaries[k].asks # <<>>}
    IN IF idx = {} THEN 0 ELSE CHOOSE k \in idx : \A j \in idx : k <= j

RECURSIVE ScanBestAsk(_, _, _)
ScanBestAsk(exchange_summaries, i, best) ==
    IF i > Len(exchange_summaries) THEN best
    ELSE LET summary == exchange_summaries[i]
         IN IF summary.asks # <<>> /\ (best = 0 \/ summary.asks[1].price < exchange_summaries[best].asks[1].price)
            THEN ScanBestAsk(exchange_summaries, i + 1, i)
            ELSE ScanBestAsk(exchange_summaries, i + 1, best)

Min(a, b) == IF a < b THEN a ELSE b

\* a slip in the profit gate: the threshold itself is rejected
ProfitGate_Strict(profit, ask_price, threshold) == profit * 100 > threshold * ask_price

\* profit_percentage >= min_profit_threshold, with profit_percentage = profit / ask_price * 100
ProfitGate(profit, ask_price, threshold) == profit * 100 >= threshold * ask_price

\* a slip in the search: any bid and ask that pass the gates are taken, not
\* only the best of each side
PairOpportunities_AnyLevels(pair, exchange_summaries, profit_threshold, volume_threshold) ==
    LET idx == 1..Len(exchange_summaries)
        passing == {ba \in idx \X idx :
                       /\ exchange_summaries[ba[1]].bids # <<>>
                       /\ exchange_summaries[ba[2]].asks # <<>>
                       /\ exchange_summaries[ba[1]].bids[1].price > exchange_summaries[ba[2]].asks[1].price
                       /\ ProfitGate(exchange_summaries[ba[1]].bids[1].price
                                         - exchange_summaries[ba[2]].asks[1].price,
                                     exchange_summaries[ba[2]].asks[1].price, profit_threshold)
                       /\ Min(exchange_summaries[ba[1]].bids[1].quantity,
                              exchange_summaries[ba[2]].asks[1].quantity) >= volume_threshold}
    IN IF Len(exchange_summaries) < 2 \/ passing = {} THEN <<>>
       ELSE LET ba == CHOOSE x \in passing : TRUE
                bid == exchange_summaries[ba[1]].bids[1]
                ask == exchange_summaries[ba[2]].asks[1]
            IN <<[buy_exchange |-> ask.exchange,
                  sell_exchange |-> bid.exchange,
                  symbol |-> pair,
                  buy_price |-> ask.price,
                  sell_price |-> bid.price,
                  profit_percentage |-> [num |-> (bid.price - ask.price) * 100, den |-> ask.price],
                  volume |-> Min(bid.quantity, ask.quantity)]>>

\* the opportunities one trading pair contributes
PairOpportunities(pair, exchange_summaries, profit_threshold, volume_threshold) ==
    IF Len(exchange_summaries) < 2 THEN <<>>
    ELSE LET b == ScanBestBid(exchange_summaries, 1, 0)
             a == ScanBestAsk(exchange_summaries, 1, 0)
         IN IF b = 0 \/ a = 0 THEN <<>>
            ELSE LET bid_summary == exchange_summaries[b]
                     ask_summary == exchange_summaries[a]
                     bid_price == bid_summary.bids[1].price
                     ask_price == ask_summary.asks[1].price
                     profit == bid_price - ask_price
                     available_volume == Min(bid_summary.bids[1].quantity, ask_summary.asks[1].quantity)
                 IN IF /\ bid_price > ask_price
                       /\ ProfitGate(profit, ask_price, profit_threshold)
                       /\ available_volume >= volume_threshold
                    THEN <<[buy_exchange |-> ask_summary.asks[1].exchange,
                            sell_exchange |-> bid_summary.bids[1].exchange,
                            symbol |-> pair,
                            buy_price |-> ask_price,
                            sell_price |-> bid_price,
                            profit_percentage |-> [num |-> profit * 100, den |-> ask_price],
                            volume |-> available_volume]>>
                    ELSE <<>>

\* the pairs of the map are visited in an unspecified order
RECURSIVE detect_opportunities(_, _, _, _)
detect_opportunities(map, pairs, profit_threshold, volume_threshold) ==
    IF pairs = {} THEN <<>>
    ELSE LET pair == CHOOSE x \in pairs : TRUE
         IN PairOpportunities(pair, map[pair], profit_threshold, volume_threshold)
            \o detect_opportunities(map, pairs \ {pair}, profit_threshold, volume_threshold)

InitArbVars ==
    /\ summaries = [pair \in ArbPairs |-> <<>>]
    /\ min_profit_threshold = 1
    /\ min_volume_threshold = 1
    /\ opportunities = <<>>
    /\ detected = FALSE

Detect ==
    /\ ~detected
    /\ opportunities' = detect_opportunities(summaries, DOMAIN summaries,
                                             min_profit_threshold, min_volume_threshold)
    /\ detected' = TRUE
    /\ UNCHANGED <<summaries, min_profit_threshold, min_volume_threshold>>

NextArb == Detect /\ UNCHANGED <<bookVars, bnVars, byVars, aggVars, txtVars, srvVars, conVars>>

(***************************************************************************)
(* The Binance connector (exchange-connectors/src/binance.rs): a reader   *)
(* task feeds a bounded channel, a processor task drains it.  A depth     *)
(* frame is modelled by its first and final update ids.                    *)
(***************************************************************************)
\* WebSocketConfig.max_reconnect_attempts, as the configuration tests set it
max_reconnect_attempts == 3

Ids == 1..MaxId

SnapshotSignal == [kind |-> "binary", parses |-> TRUE, first |-> 0, final |-> 0]

\* the depth updates of the stream, and for every update id a depth update
\* that carries it and cannot be parsed
BinanceFrames ==
    {f \in [kind : {"text"}, parses : {TRUE}, first : Ids, final : Ids] : f.first <= f.final}
    \cup {[kind |-> "text", parses |-> FALSE, first |-> i, final |-> i] : i \in Ids}

InitBnVars ==
    /\ bn_reader = "connecting"
    /\ bn_ws = <<>>
    /\ last_update_id = 0
    /\ bn_forwarded = <<>>
    /\ bn_log = "none"
    /\ bn_gap = FALSE
    /\ bn_events = 0
    /\ bn_failed_attempts = 0
    /\ bn_read = <<>>

\* connect_async succeeds
BnConnect ==
    /\ bn_reader = "connecting"
    /\ bn_events < MaxEvents
    /\ bn_reader' = "signalling"
    /\ bn_events' = bn_events + 1
    /\ bn_failed_attempts' = 0
    /\ UNCHANGED <<bn_ws, last_update_id, bn_forwarded, bn_log, bn_gap, bn_read>>

\* connect_async fails: the task sleeps 5 s and tries again
BnConnectFails ==
    /\ bn_reader = "connecting"
    /\ bn_events < MaxEvents
    /\ bn_events' = bn_events + 1
    /\ bn_failed_attempts' = bn_failed_attempts + 1
    /\ UNCHANGED <<bn_reader, bn_ws, last_update_id, bn_forwarded, bn_log, bn_gap, bn_read>>

\* the snapshot signal is queued as soon as the channel has room
BnSignalSnapshot ==
    /\ bn_reader = "signalling"
    /\ Len(bn_ws) < WsCap
    /\ bn_ws' = Append(bn_ws, SnapshotSignal)
    /\ bn_reader' = "streaming"
    /\ UNCHANGED <<last_update_id, bn_forwarded, bn_log, bn_gap, bn_events, bn_failed_attempts, bn_read>>

\* BnText with a channel that hands out the newest message first
BnText_NewestFirst(frame) ==
    /\ bn_reader = "streaming"
    /\ bn_events < MaxEvents
    /\ Len(bn_ws) < WsCap
    /\ bn_ws' = <<frame>> \o bn_ws
    /\ bn_read' = Append(bn_read, frame)
    /\ bn_events' = bn_events + 1
    /\ UNCHANGED <<bn_reader, last_update_id, bn_forwarded, bn_log, bn_gap, bn_failed_attempts>>

\* a text frame is read from the websocket and queued
BnText(frame) ==
    /\ bn_reader = "streaming"
    /\ bn_events < MaxEvents
    /\ Len(bn_ws) < WsCap
    /\ bn_ws' = Append(bn_ws, frame)
    /\ bn_read' = Append(bn_read, frame)
    /\ bn_events' = bn_events + 1
    /\ UNCHANGED <<bn_reader, last_update_id, bn_forwarded, bn_log, bn_gap, bn_failed_attempts>>

\* a close frame or a websocket error: leave the read loop and reconnect
BnClose ==
    /\ bn_reader = "streaming"
    /\ bn_events < MaxEvents
    /\ bn_reader' = "connecting"
    /\ bn_events' = bn_events + 1
    /\ UNCHANGED <<bn_ws, last_update_id, bn_forwarded, bn_log, bn_gap, bn_failed_attempts, bn_read>>

\* process_depth_update without the test first_update_id <= last_update_id + 1
process_depth_update_AcceptsGap(frame, last) ==
    IF ~frame.parses
    THEN [log |-> "parse_error", sent |-> <<>>, last |-> last]
    ELSE IF frame.final <= last
    THEN [log |-> "ignored", sent |-> <<>>, last |-> last]
    ELSE [log |-> "forwarded",
          sent |-> <<[kind |-> "delta", first |-> frame.first, final |-> frame.final]>>,
          last |-> frame.final]

\* what process_depth_update does with a frame: the outcome, the update
\* sent (if any) and the new last_update_id
process_depth_update(frame, last) ==
    IF ~frame.parses
    THEN [log |-> "parse_error", sent |-> <<>>, last |-> last]
    ELSE IF frame.final <= last
    THEN [log |-> "ignored", sent |-> <<>>, last |-> last]
    ELSE IF frame.first <= last + 1 /\ frame.final >= last + 1
    THEN [log |-> "forwarded",
          sent |-> <<[kind |-> "delta", first |-> frame.first, final |-> frame.final]>>,
          last |-> frame.final]
    ELSE [log |-> "invalid_sequence", sent |-> <<>>, last |-> last]

\* the processor receives a text message
BnProcessDepthUpdate ==
    /\ bn_ws # <<>>
    /\ Head(bn_ws).kind = "text"
    /\ LET frame == Head(bn_ws)
           r == process_depth_update(frame, last_update_id)
       IN /\ bn_forwarded' = bn_forwarded \o r.sent
          /\ last_update_id' = r.last
          /\ bn_log' = r.log
          /\ bn_gap' = (bn_gap \/ (/\ frame.parses
                                    /\ bn_forwarded # <<>>
                                    /\ frame.first > last_update_id + 1))
    /\ bn_ws' = Tail(bn_ws)
    /\ UNCHANGED <<bn_reader, bn_events, bn_failed_attempts, bn_read>>

\* the processor receives the snapshot signal; the REST request fails
\* (fetched = 0) or returns a snapshot with lastUpdateId = fetched
BnProcessSnapshot(fetched) ==
    /\ bn_ws # <<>>
    /\ Head(bn_ws).kind = "binary"
    /\ IF fetched = 0
       THEN /\ bn_log' = "snapshot_failed"
            /\ UNCHANGED <<last_update_id, bn_forwarded, bn_gap>>
       ELSE /\ bn_forwarded' = Append(bn_forwarded, [kind |-> "snapshot", first |-> fetched, final |-> fetched])
            /\ last_update_id' = fetched
            /\ bn_log' = "snapshot"
            /\ bn_gap' = FALSE
    /\ bn_ws' = Tail(bn_ws)
    /\ UNCHANGED <<bn_reader, bn_events, bn_failed_attempts, bn_read>>

NextBinance ==
    \/ BnConnect /\ UNCHANGED <<bookVars, arbVars, byVars, aggVars, txtVars, srvVars, conVars>>
    \/ BnConnectFails /\ UNCHANGED <<bookVars, arbVars, byVars, aggVars, txtVars, srvVars, conVars>>
    \/ BnSignalSnapshot /\ UNCHANGED <<bookVars, arbVars, byVars, aggVars, txtVars, srvVars, conVars>>
    \/ \E frame \in BinanceFrames : BnText(frame) /\ UNCHANGED <<bookVars, arbVars, byVars, aggVars, txtVars, srvVars, conVars>>
    \/ BnClose /\ UNCHANGED <<bookVars, arbVars, byVars, aggVars, txtVars, srvVars, conVars>>
    \/ BnProcessDepthUpdate /\ UNCHANGED <<bookVars, arbVars, byVars, aggVars, txtVars, srvVars, conVars>>
    \/ \E fetched \in {0} \cup Ids : BnProcessSnapshot(fetched) /\ UNCHANGED <<bookVars, arbVars, byVars, aggVars, txtVars, srvVars, conVars>>

(***************************************************************************)
(* The Bybit connector (exchange-connectors/src/bybit.rs).  A depth       *)
(* message is modelled by its type and its update id u.                    *)
(***************************************************************************)
BybitFrames ==
    [topic : {"orderbook.50"}, parses : {TRUE}, data_type : {"snapshot", "delta"}, u : Ids,
     b : {<<>>, <<[price |-> 10, quantity |-> 0]>>, <<[price |-> 10, quantity |-> 1]>>}]
    \cup {[topic |-> "orderbook.50", parses |-> FALSE, data_type |-> "none", u |-> 0, b |-> <<>>],
          [topic |-> "other", parses |-> TRUE, data_type |-> "none", u |-> 0, b |-> <<>>]}

\* the levels create_price_level_update puts into the PriceLevelUpdate for
\* the entries data.b of a depth message: only those with quantity > 0.0
create_price_level_update(b) ==
    LET positive(entry) == entry.quantity > 0
        kept == SelectSeq(b, positive)
    IN [i \in 1..Len(kept) |->
           [price |-> kept[i].price, quantity |-> kept[i].quantity, exchange |-> "bybit"]]

InitByVars ==
    /\ by_reader = "connecting"
    /\ by_ws = <<>>
    /\ is_initialized = FALSE
    /\ by_forwarded = <<>>
    /\ by_log = "none"
    /\ by_events = 0

\* connect_websocket connects and subscribes
ByConnect ==
    /\ by_reader = "connecting"
    /\ by_events < MaxEvents
    /\ by_reader' = "streaming"
    /\ by_events' = by_events + 1
    /\ UNCHANGED <<by_ws, is_initialized, by_forwarded, by_log>>

\* connect_websocket fails, or the connection ends: sleep reconnect_interval
ByDisconnect ==
    /\ by_reader \in {"connecting", "streaming"}
    /\ by_events < MaxEvents
    /\ by_reader' = "sleeping"
    /\ by_events' = by_events + 1
    /\ UNCHANGED <<by_ws, is_initialized, by_forwarded, by_log>>

\* the sleep is over: next turn of the loop
ByWake ==
    /\ by_reader = "sleeping"
    /\ by_reader' = "connecting"
    /\ UNCHANGED <<by_ws, is_initialized, by_forwarded, by_log, by_events>>

\* a text frame is read from the websocket and queued
ByText(frame) ==
    /\ by_reader = "streaming"
    /\ by_events < MaxEvents
    /\ Len(by_ws) < WsCap
    /\ by_ws' = Append(by_ws, frame)
    /\ by_events' = by_events + 1
    /\ UNCHANGED <<by_reader, is_initialized, by_forwarded, by_log>>

\* one turn of the loop of handle_websocket_messages
ByHandleMessage ==
    /\ by_ws # <<>>
    /\ LET msg == Head(by_ws)
           initialized == is_initialized \/ msg.data_type = "snapshot"
       IN IF msg.topic # "orderbook.50"
          THEN by_log' = "skipped" /\ UNCHANGED <<is_initialized, by_forwarded>>
          ELSE IF ~msg.parses
          THEN by_log' = "parse_error" /\ UNCHANGED <<is_initialized, by_forwarded>>
          ELSE /\ is_initialized' = initialized
               /\ IF initialized
                  THEN /\ by_forwarded' = Append(by_forwarded,
                                                 [kind |-> msg.data_type, first |-> msg.u, final |-> msg.u,
                                                  bids |-> create_price_level_update(msg.b)])
                       /\ by_log' = "forwarded"
                  ELSE /\ by_log' = "not_initialized"
                       /\ UNCHANGED by_forwarded
    /\ by_ws' = Tail(by_ws)
    /\ UNCHANGED <<by_reader, by_events>>

NextBybit ==
    \/ ByConnect /\ UNCHANGED <<bookVars, arbVars, bnVars, aggVars, txtVars, srvVars, conVars>>
    \/ ByDisconnect /\ UNCHANGED <<bookVars, arbVars, bnVars, aggVars, txtVars, srvVars, conVars>>
    \/ ByWake /\ UNCHANGED <<bookVars, arbVars, bnVars, aggVars, txtVars, srvVars, conVars>>
    \/ \E frame \in BybitFrames : ByText(frame) /\ UNCHANGED <<bookVars, arbVars, bnVars, aggVars, txtVars, srvVars, conVars>>
    \/ ByHandleMessage /\ UNCHANGED <<bookVars, arbVars, bnVars, aggVars, txtVars, srvVars, conVars>>

(***************************************************************************)
(* The aggregator (aggregator-core/src/aggregator.rs).  The clock counts   *)
(* seconds.                                                                *)
(***************************************************************************)
AggExchanges == {"binance", "bybit", "coinbase"}

\* the exchanges start_exchange_connector spawns a connector task for
WithConnector == {"binance", "bybit", "kraken"}

Configs == {{"binance", "bybit"}, {"binance", "coinbase"}}

Processor(e) == <<"price_level_processor", e>>

Connector(e) == <<"connector", e>>

AggregationProcessor == <<"aggregation_processor", "all">>

ArbitrageDetector == <<"arbitrage_detector", "all">>

HealthMonitor == <<"health_monitor", "all">>

Tasks ==
    {Processor(e) : e \in AggExchanges} \cup {Connector(e) : e \in AggExchanges}
    \cup {AggregationProcessor, ArbitrageDetector, HealthMonitor}

\* the tasks that hold a receiver of the shutdown broadcast
Listeners == {Processor(e) : e \in AggExchanges} \cup {AggregationProcessor, ArbitrageDetector, HealthMonitor}

Alive(t) == task[t] \in {"running", "shutdown_only"}

NoUpdate == [symbol |-> "", exchange |-> "none", bids |-> <<>>, asks |-> <<>>, timestamp |-> 0]

ArbInterval == 1
HealthInterval == 10
StaleAfter == 30

InitAggVars ==
    /\ enabled = {}
    /\ started = FALSE
    /\ stop_result = "none"
    /\ task = [t \in Tasks |-> "unspawned"]
    /\ shutdown_rx = [t \in Listeners |-> FALSE]
    /\ price_level_queue = [e \in AggExchanges |-> <<>>]
    /\ conn_update = [e \in AggExchanges |-> NoUpdate]
    /\ now = 0
    /\ summary_channel = <<>>
    /\ subscribed = FALSE
    /\ agg_read = 0
    /\ agg_summaries = [pair \in {} |-> NoUpdate]
    /\ health_status = [e \in {} |-> NoUpdate]
    /\ update_count = [e \in AggExchanges |-> 0]
    /\ arb_next_tick = 0
    /\ health_next_tick = 0
    /\ produced = 0
    /\ processed = <<>>
    /\ metrics = [e \in {} |-> NoUpdate]
    /\ arbitrage_channel = <<>>

\* get_metrics(exchange): the Option is a set of at most one record
get_metrics(e) == IF e \in DOMAIN metrics THEN {metrics[e]} ELSE {}

\* a slip in start(): an enabled exchange without a connector is an error
Start_NeedsConnector ==
    /\ enabled \subseteq WithConnector
    /\ ~started
    /\ started' = TRUE
    /\ health_status' = [e \in AggExchanges |->
                            [is_healthy |-> FALSE, last_update |-> now, error_message |-> "none"]]
    /\ task' = [t \in Tasks |->
                   IF \/ t \in {AggregationProcessor, ArbitrageDetector, HealthMonitor}
                      \/ \E e \in enabled : t = Processor(e)
                      \/ \E e \in enabled \cap WithConnector : t = Connector(e)
                   THEN "running" ELSE "unspawned"]
    /\ arb_next_tick' = now
    /\ health_next_tick' = now
    /\ UNCHANGED <<enabled, stop_result, shutdown_rx, price_level_queue, conn_update, now,
                   summary_channel, subscribed, agg_read, agg_summaries, update_count, produced, processed, metrics,
                   arbitrage_channel>>

\* start(): the health map is filled, then every task is spawned
Start ==
    /\ ~started
    /\ started' = TRUE
    /\ health_status' = [e \in AggExchanges |->
                            [is_healthy |-> FALSE, last_update |-> now, error_message |-> "none"]]
    /\ task' = [t \in Tasks |->
                   IF \/ t \in {AggregationProcessor, ArbitrageDetector, HealthMonitor}
                      \/ \E e \in enabled : t = Processor(e)
                      \/ \E e \in enabled \cap WithConnector : t = Connector(e)
                   THEN "running" ELSE "unspawned"]
    /\ arb_next_tick' = now
    /\ health_next_tick' = now
    /\ UNCHANGED <<enabled, stop_result, shutdown_rx, price_level_queue, conn_update, now,
                   summary_channel, subscribed, agg_read, agg_summaries, update_count, produced, processed, metrics,
                   arbitrage_channel>>

\* stop(): one send on the shutdown broadcast; it fails when no receiver is left
Stop ==
    /\ IF \E t \in Listeners : Alive(t)
       THEN /\ stop_result' = "ok"
            /\ shutdown_rx' = [t \in Listeners |-> shutdown_rx[t] \/ Alive(t)]
       ELSE /\ stop_result' = "error"
            /\ UNCHANGED shutdown_rx
    /\ UNCHANGED <<enabled, started, task, price_level_queue, conn_update, now, summary_channel,
                   subscribed, agg_read, agg_summaries, health_status, update_count,
                   arb_next_tick, health_next_tick, produced, processed, metrics,
                   arbitrage_channel>>

\* one second passes
Tick ==
    /\ now < MaxTime
    /\ now' = now + 1
    /\ UNCHANGED <<enabled, started, stop_result, task, shutdown_rx, price_level_queue,
                   conn_update, summary_channel, subscribed, agg_read, agg_summaries,
                   health_status, update_count, arb_next_tick, health_next_tick, produced, processed, metrics,
                   arbitrage_channel>>

\* the receiver of the exchange's channel has been dropped
ReceiverDropped_Never(e) == FALSE

ReceiverDropped(e) == task[Processor(e)] = "done"

\* ConnectorSend with a send that gives up when the channel is full
ConnectorSend_DropsWhenFull(e) ==
    /\ task[Connector(e)] = "running"
    /\ conn_update[e] = NoUpdate
    /\ ReceiverDropped(e) \/ produced < MaxUpdates
    /\ LET update == [symbol |-> "BTCUSDT", exchange |-> e, bids |-> <<>>, asks |-> <<>>,
                      timestamp |-> now]
       IN IF ReceiverDropped(e)
          THEN /\ task' = [task EXCEPT ![Connector(e)] = "done"]
               /\ UNCHANGED <<price_level_queue, conn_update, produced>>
          ELSE /\ produced' = produced + 1
               /\ IF Len(price_level_queue[e]) < QueueCap
                  THEN /\ price_level_queue' = [price_level_queue EXCEPT ![e] = Append(@, update)]
                       /\ UNCHANGED conn_update
                  ELSE UNCHANGED <<price_level_queue, conn_update>>
               /\ UNCHANGED task
    /\ UNCHANGED <<enabled, started, stop_result, shutdown_rx, now, summary_channel,
                   subscribed, agg_read, agg_summaries, health_status, update_count,
                   arb_next_tick, health_next_tick, processed, metrics,
                   arbitrage_channel>>

\* the connector's sleep is over: it stamps an update and sends it.  The
\* send fails when the receiver is gone, waits when the channel is full.
ConnectorSend(e) ==
    /\ task[Connector(e)] = "running"
    /\ conn_update[e] = NoUpdate
    /\ ReceiverDropped(e) \/ produced < MaxUpdates
    /\ LET update == [symbol |-> "BTCUSDT", exchange |-> e, bids |-> <<>>, asks |-> <<>>,
                      timestamp |-> now]
       IN IF ReceiverDropped(e)
          THEN /\ task' = [task EXCEPT ![Connector(e)] = "done"]
               /\ UNCHANGED <<price_level_queue, conn_update, produced>>
          ELSE /\ produced' = produced + 1
               /\ IF Len(price_level_queue[e]) < QueueCap
                  THEN /\ price_level_queue' = [price_level_queue EXCEPT ![e] = Append(@, update)]
                       /\ UNCHANGED conn_update
                  ELSE /\ conn_update' = [conn_update EXCEPT ![e] = update]
                       /\ UNCHANGED price_level_queue
               /\ UNCHANGED task
    /\ UNCHANGED <<enabled, started, stop_result, shutdown_rx, now, summary_channel,
                   subscribed, agg_read, agg_summaries, health_status, update_count,
                   arb_next_tick, health_next_tick, processed, metrics,
                   arbitrage_channel>>

\* a send that waited for room completes, or fails because the receiver is gone
ConnectorSendResumes(e) ==
    /\ task[Connector(e)] = "running"
    /\ conn_update[e] # NoUpdate
    /\ IF ReceiverDropped(e)
       THEN /\ task' = [task EXCEPT ![Connector(e)] = "done"]
            /\ conn_update' = [conn_update EXCEPT ![e] = NoUpdate]
            /\ UNCHANGED price_level_queue
       ELSE /\ Len(price_level_queue[e]) < QueueCap
            /\ price_level_queue' = [price_level_queue EXCEPT ![e] = Append(@, conn_update[e])]
            /\ conn_update' = [conn_update EXCEPT ![e] = NoUpdate]
            /\ UNCHANGED task
    /\ UNCHANGED <<enabled, started, stop_result, shutdown_rx, now, summary_channel,
                   subscribed, agg_read, agg_summaries, health_status, update_count,
                   arb_next_tick, health_next_tick, produced, processed, metrics,
                   arbitrage_channel>>

\* the updates a connector built on exchange-connectors sends: at most one
\* level per side, stamped with the venue
VenueLevels(e, prices) ==
    {<<>>} \cup {<<[price |-> p, quantity |-> 1, exchange |-> e]>> : p \in prices}

VenueUpdates(e) ==
    {[symbol |-> "BTCUSDT", exchange |-> e, bids |-> b, asks |-> a, timestamp |-> now] :
        b \in VenueLevels(e, {100, 101}), a \in VenueLevels(e, {102, 103})}

\* an update with price levels is sent on the exchange's price_level_tx
PriceLevelSent(e, update) ==
    /\ task[Processor(e)] = "running"
    /\ produced < MaxUpdates
    /\ Len(price_level_queue[e]) < QueueCap
    /\ price_level_queue' = [price_level_queue EXCEPT ![e] = Append(@, update)]
    /\ produced' = produced + 1
    /\ UNCHANGED <<enabled, started, stop_result, task, shutdown_rx, conn_update, now,
                   summary_channel, subscribed, agg_read, agg_summaries, health_status,
                   update_count, arb_next_tick, health_next_tick, processed, metrics,
                   arbitrage_channel>>

\* the Summary process_price_level_update builds from one update
SummaryOf(update) ==
    [symbol |-> update.symbol,
     spread |-> IF update.bids # <<>> /\ update.asks # <<>>
                THEN update.asks[1].price - update.bids[1].price ELSE 0,
     bids |-> update.bids,
     asks |-> update.asks,
     timestamp |-> update.timestamp]

\* a slip in the channel: the sender waits while SummaryCap summaries are unread
SendWaits_WhenFull(channel, read) == Len(channel) - read >= SummaryCap

\* broadcast::Sender::send is not async: it stores the value, overwriting the
\* oldest one when the buffer is full, and returns
SendWaits(channel, read) == FALSE

\* a send on the summary broadcast succeeds while a receiver exists
SummaryReceivers == subscribed \/ Alive(AggregationProcessor)

\* ProcessorReceives with a stamp that leaves the error message in place
ProcessorReceives_KeepsError(e) ==
    /\ task[Processor(e)] = "running"
    /\ price_level_queue[e] # <<>>
    /\ ~SendWaits(summary_channel, agg_read)
    /\ price_level_queue' = [price_level_queue EXCEPT ![e] = Tail(@)]
    /\ IF SummaryReceivers
       THEN /\ summary_channel' = Append(summary_channel, SummaryOf(Head(price_level_queue[e])))
            /\ processed' = Append(processed, Head(price_level_queue[e]))
            /\ update_count' = [update_count EXCEPT ![e] = @ + 1]
            /\ metrics' = IF e \in DOMAIN metrics
                          THEN [metrics EXCEPT ![e] =
                                   [@ EXCEPT !.updates_per_second = <<update_count[e] + 1, now>>,
                                             !.last_update = now]]
                          ELSE metrics
            /\ health_status' = [health_status EXCEPT ![e] =
                                    [@ EXCEPT !.is_healthy = TRUE, !.last_update = now]]
       ELSE /\ health_status' = [health_status EXCEPT ![e] =
                                    [@ EXCEPT !.is_healthy = FALSE, !.error_message = "Failed to send summary"]]
            /\ UNCHANGED <<summary_channel, update_count, processed, metrics>>
    /\ UNCHANGED <<enabled, started, stop_result, task, shutdown_rx, conn_update, now,
                   subscribed, agg_read, agg_summaries, arb_next_tick, health_next_tick, produced,
                   arbitrage_channel>>

\* the price level processor of an exchange receives an update
ProcessorReceives(e) ==
    /\ task[Processor(e)] = "running"
    /\ price_level_queue[e] # <<>>
    /\ ~SendWaits(summary_channel, agg_read)
    /\ price_level_queue' = [price_level_queue EXCEPT ![e] = Tail(@)]
    /\ IF SummaryReceivers
       THEN /\ summary_channel' = Append(summary_channel, SummaryOf(Head(price_level_queue[e])))
            /\ processed' = Append(processed, Head(price_level_queue[e]))
            /\ update_count' = [update_count EXCEPT ![e] = @ + 1]
            /\ metrics' = IF e \in DOMAIN metrics
                          THEN [metrics EXCEPT ![e] =
                                   [@ EXCEPT !.updates_per_second = <<update_count[e] + 1, now>>,
                                             !.last_update = now]]
                          ELSE metrics
            /\ health_status' = [health_status EXCEPT ![e] =
                                    [is_healthy |-> TRUE, last_update |-> now, error_message |-> "none"]]
       ELSE /\ health_status' = [health_status EXCEPT ![e] =
                                    [@ EXCEPT !.is_healthy = FALSE, !.error_message = "Failed to send summary"]]
            /\ UNCHANGED <<summary_channel, update_count, processed, metrics>>
    /\ UNCHANGED <<enabled, started, stop_result, task, shutdown_rx, conn_update, now,
                   subscribed, agg_read, agg_summaries, arb_next_tick, health_next_tick, produced,
                   arbitrage_channel>>

\* a task takes the shutdown branch of its select, leaves its loop and
\* drops what it owns
TakesShutdown(t) ==
    /\ Alive(t)
    /\ shutdown_rx[t]
    /\ task' = [task EXCEPT ![t] = "done"]
    /\ shutdown_rx' = [shutdown_rx EXCEPT ![t] = FALSE]

ProcessorShutdown(e) ==
    /\ TakesShutdown(Processor(e))
    /\ price_level_queue' = [price_level_queue EXCEPT ![e] = <<>>]
    /\ UNCHANGED <<enabled, started, stop_result, conn_update, now, summary_channel,
                   subscribed, agg_read, agg_summaries, health_status, update_count,
                   arb_next_tick, health_next_tick, produced, processed, metrics,
                   arbitrage_channel>>

\* the aggregation processor receives from the summary broadcast: the next
\* summary, or Lagged when more than SummaryCap are waiting, which matches
\* no branch and leaves the select waiting for the shutdown alone
AggregationReceives ==
    /\ task[AggregationProcessor] = "running"
    /\ agg_read < Len(summary_channel)
    /\ IF Len(summary_channel) - agg_read > SummaryCap
       THEN /\ task' = [task EXCEPT ![AggregationProcessor] = "shutdown_only"]
            /\ UNCHANGED <<agg_read, agg_summaries>>
       ELSE LET summary == summary_channel[agg_read + 1]
                pair == <<summary.symbol, "USDT">>
            IN /\ agg_summaries' = [k \in DOMAIN agg_summaries \cup {pair} |->
                                       IF k = pair THEN summary ELSE agg_summaries[k]]
               /\ agg_read' = agg_read + 1
               /\ UNCHANGED task
    /\ UNCHANGED <<enabled, started, stop_result, shutdown_rx, price_level_queue,
                   conn_update, now, summary_channel, subscribed, health_status, update_count,
                   arb_next_tick, health_next_tick, produced, processed, metrics,
                   arbitrage_channel>>

AggregationShutdown ==
    /\ TakesShutdown(AggregationProcessor)
    /\ UNCHANGED <<enabled, started, stop_result, price_level_queue, conn_update, now,
                   summary_channel, subscribed, agg_read, agg_summaries, health_status,
                   update_count, arb_next_tick, health_next_tick, produced, processed, metrics,
                   arbitrage_channel>>

\* detect_arbitrage_opportunity: the Option is a set of at most one
\* opportunity; the function looks at nothing and returns None
detect_arbitrage_opportunity(pair, summary) == {}

\* the opportunities one tick sends, the pairs of the map in any order
RECURSIVE ScanSummaries(_, _)
ScanSummaries(map, pairs) ==
    IF pairs = {} THEN <<>>
    ELSE LET pair == CHOOSE x \in pairs : TRUE
             found == detect_arbitrage_opportunity(pair, map[pair])
         IN (IF found = {} THEN <<>> ELSE <<CHOOSE o \in found : TRUE>>)
            \o ScanSummaries(map, pairs \ {pair})

\* a tick of the arbitrage detector: every summary of the map is examined
ArbitrageTick ==
    /\ task[ArbitrageDetector] = "running"
    /\ now >= arb_next_tick
    /\ arb_next_tick' = arb_next_tick + ArbInterval
    /\ arbitrage_channel' = arbitrage_channel \o ScanSummaries(agg_summaries, DOMAIN agg_summaries)
    /\ UNCHANGED <<enabled, started, stop_result, task, shutdown_rx, price_level_queue,
                   conn_update, now, summary_channel, subscribed, agg_read, agg_summaries,
                   health_status, update_count, health_next_tick, produced, processed, metrics>>

ArbitrageShutdown ==
    /\ TakesShutdown(ArbitrageDetector)
    /\ UNCHANGED <<enabled, started, stop_result, price_level_queue, conn_update, now,
                   summary_channel, subscribed, agg_read, agg_summaries, health_status,
                   update_count, arb_next_tick, health_next_tick, produced, processed, metrics,
                   arbitrage_channel>>

\* d seconds pass
TimePasses(d) ==
    /\ now + d <= MaxTicks * HealthInterval
    /\ now' = now + d
    /\ UNCHANGED <<enabled, started, stop_result, task, shutdown_rx, price_level_queue,
                   conn_update, summary_channel, subscribed, agg_read, agg_summaries,
                   health_status, update_count, arb_next_tick, health_next_tick, produced,
                   processed, metrics, arbitrage_channel>>

\* HealthTick with a monitor that never finds an exchange stale
HealthTick_NeverStale ==
    /\ task[HealthMonitor] = "running"
    /\ now >= health_next_tick
    /\ health_next_tick' = health_next_tick + HealthInterval
    /\ health_status' = [e \in DOMAIN health_status |->
                            IF FALSE
                            THEN [health_status[e] EXCEPT
                                     !.is_healthy = FALSE,
                                     !.error_message = IF @ = "none" THEN "No recent updates" ELSE @]
                            ELSE health_status[e]]
    /\ UNCHANGED <<enabled, started, stop_result, task, shutdown_rx, price_level_queue,
                   conn_update, now, summary_channel, subscribed, agg_read, agg_summaries,
                   update_count, arb_next_tick, produced, processed, metrics,
                   arbitrage_channel>>

\* the health monitor marks every exchange silent for more than StaleAfter
HealthTick ==
    /\ task[HealthMonitor] = "running"
    /\ now >= health_next_tick
    /\ health_next_tick' = health_next_tick + HealthInterval
    /\ health_status' = [e \in DOMAIN health_status |->
                            IF now - health_status[e].last_update > StaleAfter
                            THEN [health_status[e] EXCEPT
                                     !.is_healthy = FALSE,
                                     !.error_message = IF @ = "none" THEN "No recent updates" ELSE @]
                            ELSE health_status[e]]
    /\ UNCHANGED <<enabled, started, stop_result, task, shutdown_rx, price_level_queue,
                   conn_update, now, summary_channel, subscribed, agg_read, agg_summaries,
                   update_count, arb_next_tick, produced, processed, metrics,
                   arbitrage_channel>>

HealthShutdown ==
    /\ TakesShutdown(HealthMonitor)
    /\ UNCHANGED <<enabled, started, stop_result, price_level_queue, conn_update, now,
                   summary_channel, subscribed, agg_read, agg_summaries, health_status,
                   update_count, arb_next_tick, health_next_tick, produced, processed, metrics,
                   arbitrage_channel>>

otherVars == <<bookVars, arbVars, bnVars, byVars, txtVars, srvVars, conVars>>

NextAgg ==
    \/ Start /\ UNCHANGED otherVars
    \/ Stop /\ UNCHANGED otherVars
    \/ Tick /\ UNCHANGED otherVars
    \/ \E e \in AggExchanges : ConnectorSend(e) /\ UNCHANGED otherVars
    \/ \E e \in AggExchanges : ConnectorSendResumes(e) /\ UNCHANGED otherVars
    \/ \E e \in AggExchanges : ProcessorReceives(e) /\ UNCHANGED otherVars
    \/ \E e \in AggExchanges : ProcessorShutdown(e) /\ UNCHANGED otherVars
    \/ AggregationReceives /\ UNCHANGED otherVars
    \/ AggregationShutdown /\ UNCHANGED otherVars
    \/ ArbitrageTick /\ UNCHANGED otherVars
    \/ ArbitrageShutdown /\ UNCHANGED otherVars
    \/ HealthTick /\ UNCHANGED otherVars
    \/ HealthShutdown /\ UNCHANGED otherVars

\* the tasks on the two ends of the per-exchange queues, and stop()
NextQueue ==
    \/ Start /\ UNCHANGED otherVars
    \/ Stop /\ UNCHANGED otherVars
    \/ \E e \in AggExchanges : ConnectorSend(e) /\ UNCHANGED otherVars
    \/ \E e \in AggExchanges : ConnectorSendResumes(e) /\ UNCHANGED otherVars
    \/ \E e \in AggExchanges : ProcessorReceives(e) /\ UNCHANGED otherVars
    \/ \E e \in AggExchanges : ProcessorShutdown(e) /\ UNCHANGED otherVars
    \/ AggregationShutdown /\ UNCHANGED otherVars

\* the health monitor, the clock, and the tasks that feed the health status
NextHealth ==
    \/ Start /\ UNCHANGED otherVars
    \/ \E d \in {5, HealthInterval} : TimePasses(d) /\ UNCHANGED otherVars
    \/ \E e \in AggExchanges : ConnectorSend(e) /\ UNCHANGED otherVars
    \/ \E e \in AggExchanges : ProcessorReceives(e) /\ UNCHANGED otherVars
    \/ HealthTick /\ UNCHANGED otherVars

\* the price level processors fed with updates that carry levels
NextSummary ==
    \/ Start /\ UNCHANGED otherVars
    \/ \E e \in enabled : \E update \in VenueUpdates(e) : PriceLevelSent(e, update) /\ UNCHANGED otherVars
    \/ \E e \in AggExchanges : ProcessorReceives(e) /\ UNCHANGED otherVars

\* the summary broadcast between the price level processors and the
\* aggregation processor
NextLag ==
    \/ Start /\ UNCHANGED otherVars
    \/ \E e \in AggExchanges : ConnectorSend(e) /\ UNCHANGED otherVars
    \/ \E e \in AggExchanges : ConnectorSendResumes(e) /\ UNCHANGED otherVars
    \/ \E e \in AggExchanges : ProcessorReceives(e) /\ UNCHANGED otherVars
    \/ AggregationReceives /\ UNCHANGED otherVars

\* the path of an update to the summaries map, and the arbitrage detector
\* that reads the map once a second; the updates are such that one exchange
\* can bid more than another asks
NextScan ==
    \/ Start /\ UNCHANGED otherVars
    \/ Tick /\ UNCHANGED otherVars
    \/ \E e \in enabled : \E b \in VenueLevels(e, {101}), a \in VenueLevels(e, {100}) :
           /\ PriceLevelSent(e, [symbol |-> "BTCUSDT", exchange |-> e, bids |-> b, asks |-> a,
                                 timestamp |-> now])
           /\ UNCHANGED otherVars
    \/ \E e \in AggExchanges : ProcessorReceives(e) /\ UNCHANGED otherVars
    \/ AggregationReceives /\ UNCHANGED otherVars
    \/ ArbitrageTick /\ UNCHANGED otherVars

(***************************************************************************)
(* Display and FromStr of Exchange and TradingPair                         *)
(* (aggregator-core/src/types.rs).  A string is a sequence of characters.  *)
(***************************************************************************)
\* the characters of the symbols: two upper-case letters, a lower-case letter
\* and the separator
SymbolChars == {"B", "T", "b", "/"}

Symbols == UNION {[1..n -> SymbolChars] : n \in 0..MaxSymbolLen}

LowerOf == [B |-> "b", C |-> "c", K |-> "k", O |-> "o", T |-> "t", X |-> "x"]

to_lowercase(s) == [i \in 1..Len(s) |-> IF s[i] \in DOMAIN LowerOf THEN LowerOf[s[i]] ELSE s[i]]

to_uppercase(s) ==
    [i \in 1..Len(s) |-> IF \E u \in DOMAIN LowerOf : LowerOf[u] = s[i]
                         THEN CHOOSE u \in DOMAIN LowerOf : LowerOf[u] = s[i]
                         ELSE s[i]]

ExchangeVariants == {"Binance", "Bitstamp", "Bybit", "Kraken", "Coinbase", "CryptoDotCom", "OKX"}

\* Display for Exchange
ExchangeDisplay(exchange) ==
    CASE exchange = "Binance" -> <<"b", "i", "n", "a", "n", "c", "e">>
      [] exchange = "Bitstamp" -> <<"b", "i", "t", "s", "t", "a", "m", "p">>
      [] exchange = "Bybit" -> <<"b", "y", "b", "i", "t">>
      [] exchange = "Kraken" -> <<"k", "r", "a", "k", "e", "n">>
      [] exchange = "Coinbase" -> <<"c", "o", "i", "n", "b", "a", "s", "e">>
      [] exchange = "CryptoDotCom" -> <<"c", "r", "y", "p", "t", "o", "_", "d", "o", "t", "_", "c", "o", "m">>
      [] exchange = "OKX" -> <<"o", "k", "x">>

\* a Result: Ok(value) or Err
Ok(value) == [ok |-> TRUE, value |-> value]

Err == [ok |-> FALSE, value |-> <<>>]

\* FromStr for Exchange: the lower-cased text is matched against the names
Exchange_from_str(s) ==
    LET name == to_lowercase(s)
    IN CASE name = <<"b", "i", "n", "a", "n", "c", "e">> -> Ok("Binance")
         [] name = <<"b", "i", "t", "s", "t", "a", "m", "p">> -> Ok("Bitstamp")
         [] name = <<"b", "y", "b", "i", "t">> -> Ok("Bybit")
         [] name = <<"k", "r", "a", "k", "e", "n">> -> Ok("Kraken")
         [] name = <<"c", "o", "i", "n", "b", "a", "s", "e">> -> Ok("Coinbase")
         [] name = <<"c", "r", "y", "p", "t", "o", "_", "d", "o", "t", "_", "c", "o", "m">> -> Ok("CryptoDotCom")
         [] name = <<"o", "k", "x">> -> Ok("OKX")
         [] OTHER -> Err

TradingPair_new(base, quote) == [base |-> to_uppercase(base), quote |-> to_uppercase(quote)]

\* Display for TradingPair: "{}/{}"
TradingPairDisplay(pair) == pair.base \o <<"/">> \o pair.quote

\* str::split('/'): the pieces between the separators
RECURSIVE Split(_)
Split(s) ==
    LET at == {i \in 1..Len(s) : s[i] = "/"}
    IN IF at = {} THEN <<s>>
       ELSE LET i == CHOOSE x \in at : \A y \in at : x <= y
            IN <<SubSeq(s, 1, i - 1)>> \o Split(SubSeq(s, i + 1, Len(s)))

\* a slip in the parser: the two parts are taken in the wrong order
TradingPair_from_str_Swapped(s) ==
    LET parts == Split(s)
    IN IF Len(parts) # 2 THEN Err ELSE Ok(TradingPair_new(parts[2], parts[1]))

\* FromStr for TradingPair
TradingPair_from_str(s) ==
    LET parts == Split(s)
    IN IF Len(parts) # 2 THEN Err ELSE Ok(TradingPair_new(parts[1], parts[2]))

\* a text or a result not produced yet is the empty set, a produced one a
\* singleton
InitTxtVars ==
    /\ txt_pair = [base |-> <<>>, quote |-> <<>>]
    /\ txt_pair_text = {}
    /\ txt_pair_parsed = {}
    /\ txt_exchange = "Binance"
    /\ txt_exchange_text = {}
    /\ txt_exchange_parsed = {}

PairToString ==
    /\ txt_pair_text = {}
    /\ txt_pair_text' = {TradingPairDisplay(txt_pair)}
    /\ UNCHANGED <<txt_pair, txt_pair_parsed, txt_exchange, txt_exchange_text, txt_exchange_parsed>>

PairFromStr ==
    /\ txt_pair_parsed = {}
    /\ \E s \in txt_pair_text : txt_pair_parsed' = {TradingPair_from_str(s)}
    /\ UNCHANGED <<txt_pair, txt_pair_text, txt_exchange, txt_exchange_text, txt_exchange_parsed>>

ExchangeToString ==
    /\ txt_exchange_text = {}
    /\ txt_exchange_text' = {ExchangeDisplay(txt_exchange)}
    /\ UNCHANGED <<txt_pair, txt_pair_text, txt_pair_parsed, txt_exchange, txt_exchange_parsed>>

ExchangeFromStr ==
    /\ txt_exchange_parsed = {}
    /\ \E s \in txt_exchange_text : txt_exchange_parsed' = {Exchange_from_str(s)}
    /\ UNCHANGED <<txt_pair, txt_pair_text, txt_pair_parsed, txt_exchange, txt_exchange_text>>

NextText ==
    \/ PairToString /\ UNCHANGED <<bookVars, arbVars, bnVars, byVars, aggVars, srvVars, conVars>>
    \/ PairFromStr /\ UNCHANGED <<bookVars, arbVars, bnVars, byVars, aggVars, srvVars, conVars>>
    \/ ExchangeToString /\ UNCHANGED <<bookVars, arbVars, bnVars, byVars, aggVars, srvVars, conVars>>
    \/ ExchangeFromStr /\ UNCHANGED <<bookVars, arbVars, bnVars, byVars, aggVars, srvVars, conVars>>

(***************************************************************************)
(* The WebSocket server (server-implementations/src/websocket.rs).  A      *)
(* summary is modelled by its number in the order of publication.          *)
(***************************************************************************)
InitSrvVars ==
    /\ connection_count = 0
    /\ srv_conn = [id \in 1..MaxClients |-> "none"]
    /\ published = 0
    /\ srv_read = 0
    /\ broadcast_task = "running"
    /\ delivered = [id \in 1..MaxClients |-> <<>>]

\* the accept loop takes the next connection: it is turned away when the
\* counter has reached max_connections, else counted and handed to a task
\* running handle_connection
SrvAccept(id) ==
    /\ srv_conn[id] = "none"
    /\ \A other \in 1..MaxClients : other < id => srv_conn[other] # "none"
    /\ IF connection_count >= max_connections
       THEN /\ srv_conn' = [srv_conn EXCEPT ![id] = "rejected"]
            /\ UNCHANGED connection_count
       ELSE /\ srv_conn' = [srv_conn EXCEPT ![id] = "accepted"]
            /\ connection_count' = connection_count + 1
    /\ UNCHANGED <<published, srv_read, broadcast_task, delivered>>

\* handle_connection up to the insert into client_senders: a failed
\* handshake makes it return through `?`
SrvHandshake(id, ok) ==
    /\ srv_conn[id] = "accepted"
    /\ srv_conn' = [srv_conn EXCEPT ![id] = IF ok THEN "open" ELSE "handshake_failed"]
    /\ UNCHANGED <<connection_count, published, srv_read, broadcast_task, delivered>>

\* handle_connection after the select: the client has gone
SrvClose(id) ==
    /\ srv_conn[id] = "open"
    /\ srv_conn' = [srv_conn EXCEPT ![id] = "closed"]
    /\ connection_count' = connection_count - 1
    /\ UNCHANGED <<published, srv_read, broadcast_task, delivered>>

\* the aggregator sends a summary on the summary broadcast
SrvPublish ==
    /\ published < MaxPublished
    /\ published' = published + 1
    /\ UNCHANGED <<connection_count, srv_conn, srv_read, broadcast_task, delivered>>

\* one turn of the loop of broadcast_task: recv() gives the next summary, or
\* Lagged when more than the capacity of the channel is unread, and the
\* receiver then stands at the oldest summary the channel still holds
SrvBroadcast ==
    /\ broadcast_task = "running"
    /\ srv_read < published
    /\ IF published - srv_read > SummaryCap
       THEN /\ broadcast_task' = "ended"
            /\ srv_read' = published - SummaryCap
            /\ UNCHANGED delivered
       ELSE /\ srv_read' = srv_read + 1
            /\ delivered' = [id \in 1..MaxClients |->
                                IF srv_conn[id] = "open"
                                THEN Append(delivered[id], srv_read + 1)
                                ELSE delivered[id]]
            /\ UNCHANGED broadcast_task
    /\ UNCHANGED <<connection_count, srv_conn, published>>

NextServer ==
    \/ \E id \in 1..MaxClients : SrvAccept(id) /\ UNCHANGED <<bookVars, arbVars, bnVars, byVars, aggVars, txtVars, conVars>>
    \/ \E id \in 1..MaxClients, ok \in BOOLEAN :
           SrvHandshake(id, ok) /\ UNCHANGED <<bookVars, arbVars, bnVars, byVars, aggVars, txtVars, conVars>>
    \/ \E id \in 1..MaxClients : SrvClose(id) /\ UNCHANGED <<bookVars, arbVars, bnVars, byVars, aggVars, txtVars, conVars>>
    \/ SrvPublish /\ UNCHANGED <<bookVars, arbVars, bnVars, byVars, aggVars, txtVars, conVars>>
    \/ SrvBroadcast /\ UNCHANGED <<bookVars, arbVars, bnVars, byVars, aggVars, txtVars, conVars>>

(***************************************************************************)
(* Clones of one HashMapOrderBook used by concurrent tasks                 *)
(* (orderbook-implementations/src/hashmap.rs).                             *)
(***************************************************************************)
InitConVars ==
    /\ con_pc = [t \in {"c1", "c2"} |-> "idle"]
    /\ con_local = [t \in {"c1", "c2"} |-> <<>>]
    /\ con_result = [t \in {"c1", "c2"} |-> <<>>]

\* A call keeps a lock from the step that takes it to the step that drops
\* it, so the locks held follow from the positions of the calls: at
\* "ub_write" update_bids holds bids for reading, at "gb_find" get_best_bid
\* holds bid_prices for reading, at "cl_prices" clear holds bids and asks for
\* writing.  A step that needs a lock is enabled when no other clone holds
\* it in a conflicting mode.
OtherAt(t, positions) == \E o \in {"c1", "c2"} \ {t} : con_pc[o] \in positions

\* update_bids: the map is changed under its write lock, the lock is
\* dropped, then sort_bid_prices takes the map for reading and the index
\* for writing
ConUpdateBids(t, bids, max_depth) ==
    /\ \/ /\ con_pc[t] = "idle"
          /\ work < MaxWork
          /\ ~OtherAt(t, {"cl_prices", "ub_write"})
          /\ hm_bids' = HashMap_update_bids(hm_bids, bids, max_depth)
          /\ con_pc' = [con_pc EXCEPT ![t] = "ub_sort"]
          /\ work' = work + 1
          /\ UNCHANGED <<hm_bid_prices, con_local>>
       \/ /\ con_pc[t] = "ub_sort"
          /\ ~OtherAt(t, {"cl_prices"})
          /\ con_local' = [con_local EXCEPT ![t] = sort_bid_prices(hm_bids)]
          /\ con_pc' = [con_pc EXCEPT ![t] = "ub_write"]
          /\ UNCHANGED <<hm_bids, hm_bid_prices, work>>
       \/ /\ con_pc[t] = "ub_write"
          /\ ~OtherAt(t, {"gb_find"})
          /\ hm_bid_prices' = con_local[t]
          /\ con_local' = [con_local EXCEPT ![t] = <<>>]
          /\ con_pc' = [con_pc EXCEPT ![t] = "idle"]
          /\ UNCHANGED <<hm_bids, work>>
    /\ UNCHANGED <<bt_bids, bt_asks, hm_asks, hm_ask_prices, history, con_result>>

\* get_best_bid: the first price of the index is read under the read lock
\* of the index, which is kept while the map is taken for reading
ConGetBestBid(t) ==
    /\ \/ /\ con_pc[t] = "idle"
          /\ work < MaxWork
          /\ work' = work + 1
          /\ IF hm_bid_prices = <<>>
             THEN /\ con_result' = [con_result EXCEPT ![t] = Append(@, NoLevel)]
                  /\ UNCHANGED <<con_pc, con_local>>
             ELSE /\ con_local' = [con_local EXCEPT ![t] = <<hm_bid_prices[1]>>]
                  /\ con_pc' = [con_pc EXCEPT ![t] = "gb_find"]
                  /\ UNCHANGED con_result
       \/ /\ con_pc[t] = "gb_find"
          /\ ~OtherAt(t, {"cl_prices"})
          /\ \E found \in HashMap_get_best_bid(hm_bids, con_local[t]) :
                 con_result' = [con_result EXCEPT ![t] = Append(@, found)]
          /\ con_local' = [con_local EXCEPT ![t] = <<>>]
          /\ con_pc' = [con_pc EXCEPT ![t] = "idle"]
          /\ UNCHANGED work
    /\ UNCHANGED <<bt_bids, bt_asks, hm_bids, hm_asks, hm_bid_prices, hm_ask_prices, history>>

\* clear: the write locks of bids, asks, bid_prices and ask_prices are taken
\* in this order and all kept to the end; only bids and bid_prices are
\* contended by the calls above
ConClear(t) ==
    /\ \/ /\ con_pc[t] = "idle"
          /\ work < MaxWork
          /\ ~OtherAt(t, {"cl_prices", "ub_write"})
          /\ con_pc' = [con_pc EXCEPT ![t] = "cl_prices"]
          /\ work' = work + 1
          /\ UNCHANGED <<hm_bids, hm_asks, hm_bid_prices, hm_ask_prices>>
       \/ /\ con_pc[t] = "cl_prices"
          /\ ~OtherAt(t, {"gb_find"})
          /\ hm_bids' = EmptyMap
          /\ hm_asks' = EmptyMap
          /\ hm_bid_prices' = <<>>
          /\ hm_ask_prices' = <<>>
          /\ con_pc' = [con_pc EXCEPT ![t] = "idle"]
          /\ UNCHANGED work
    /\ UNCHANGED <<bt_bids, bt_asks, history, con_local, con_result>>

NextCon ==
    \/ \E t \in {"c1", "c2"}, bid \in Levels :
           ConUpdateBids(t, <<bid>>, MaxDepthArg) /\ UNCHANGED <<arbVars, bnVars, byVars, aggVars, txtVars, srvVars>>
    \/ \E t \in {"c1", "c2"} : ConGetBestBid(t) /\ UNCHANGED <<arbVars, bnVars, byVars, aggVars, txtVars, srvVars>>
    \/ \E t \in {"c1", "c2"} : ConClear(t) /\ UNCHANGED <<arbVars, bnVars, byVars, aggVars, txtVars, srvVars>>

(***************************************************************************)
(* The specifications.  Each one runs one component; the state of the     *)
(* other components stays as constructed.                                  *)
(***************************************************************************)
InitBook == InitBookVars /\ InitArbVars /\ InitBnVars /\ InitByVars /\ InitAggVars /\ InitTxtVars /\ InitSrvVars /\ InitConVars

SpecBook == InitBook /\ [][NextBook]_vars

InitArb ==
    /\ InitBookVars /\ InitBnVars /\ InitByVars /\ InitAggVars /\ InitTxtVars /\ InitSrvVars /\ InitConVars
    /\ summaries \in [ArbPairs -> UNION {[1..n -> VenueSummaries] : n \in 0..MaxSummaries}]
    /\ min_profit_threshold \in ProfitThresholds
    /\ min_volume_threshold \in VolumeThresholds
    /\ opportunities = <<>>
    /\ detected = FALSE

SpecArb == InitArb /\ [][NextArb]_vars

InitBinance == InitBookVars /\ InitArbVars /\ InitBnVars /\ InitByVars /\ InitAggVars /\ InitTxtVars /\ InitSrvVars /\ InitConVars

SpecBinance == InitBinance /\ [][NextBinance]_vars

\* the reader and the processor are tasks of their own: a send the channel
\* has room for completes, a message that waits in the channel is received.
\* A snapshot request that is made again and again is answered in the end.
FairSpecBinance ==
    /\ InitBinance
    /\ [][NextBinance]_vars
    /\ WF_vars(BnSignalSnapshot /\ UNCHANGED <<bookVars, arbVars, byVars, aggVars, txtVars, srvVars, conVars>>)
    /\ WF_vars(BnProcessDepthUpdate /\ UNCHANGED <<bookVars, arbVars, byVars, aggVars, txtVars, srvVars, conVars>>)
    /\ WF_vars(\E fetched \in {0} \cup Ids :
                   BnProcessSnapshot(fetched) /\ UNCHANGED <<bookVars, arbVars, byVars, aggVars, txtVars, srvVars, conVars>>)
    /\ SF_vars(\E fetched \in Ids :
                   BnProcessSnapshot(fetched) /\ UNCHANGED <<bookVars, arbVars, byVars, aggVars, txtVars, srvVars, conVars>>)

InitBybit == InitBookVars /\ InitArbVars /\ InitBnVars /\ InitByVars /\ InitAggVars /\ InitTxtVars /\ InitSrvVars /\ InitConVars

SpecBybit == InitBybit /\ [][NextBybit]_vars

\* the aggregator as constructed by new(), for each configuration, with or
\* without an outside subscriber to the summaries
InitAgg ==
    /\ InitBookVars /\ InitArbVars /\ InitBnVars /\ InitByVars /\ InitTxtVars /\ InitSrvVars /\ InitConVars
    /\ enabled \in Configs
    /\ subscribed \in BOOLEAN
    /\ started = FALSE
    /\ stop_result = "none"
    /\ task = [t \in Tasks |-> "unspawned"]
    /\ shutdown_rx = [t \in Listeners |-> FALSE]
    /\ price_level_queue = [e \in AggExchanges |-> <<>>]
    /\ conn_update = [e \in AggExchanges |-> NoUpdate]
    /\ now = 0
    /\ summary_channel = <<>>
    /\ agg_read = 0
    /\ agg_summaries = [pair \in {} |-> NoUpdate]
    /\ health_status = [e \in {} |-> NoUpdate]
    /\ update_count = [e \in AggExchanges |-> 0]
    /\ arb_next_tick = 0
    /\ health_next_tick = 0
    /\ produced = 0
    /\ processed = <<>>
    /\ metrics = [e \in {} |-> NoUpdate]
    /\ arbitrage_channel = <<>>

SpecAgg == InitAgg /\ [][NextAgg]_vars

InitSummary == InitAgg /\ enabled = {"binance", "bybit"}

SpecSummary == InitSummary /\ [][NextSummary]_vars

SpecLag == InitAgg /\ [][NextLag]_vars

\* the configuration with one connector and one exchange without a
\* connector has every kind of task
InitFairAgg == InitAgg /\ enabled = {"binance", "coinbase"} /\ ~subscribed

\* every select polls its ready branches in random order, so a task whose
\* shutdown message waits does take it, and a processor whose channel holds
\* an update does receive it; a connector whose sleep is over does send
FairSpecAgg ==
    /\ InitFairAgg
    /\ [][NextAgg]_vars
    /\ \A e \in AggExchanges :
           /\ WF_vars(ProcessorShutdown(e) /\ UNCHANGED otherVars)
           /\ WF_vars(ConnectorSend(e) /\ UNCHANGED otherVars)
           /\ WF_vars(ConnectorSendResumes(e) /\ UNCHANGED otherVars)
    /\ WF_vars(AggregationShutdown /\ UNCHANGED otherVars)
    /\ WF_vars(ArbitrageShutdown /\ UNCHANGED otherVars)
    /\ WF_vars(HealthShutdown /\ UNCHANGED otherVars)

SpecHealth == InitFairAgg /\ [][NextHealth]_vars

\* the same scheduling, for the tasks around the queues
FairSpecQueue ==
    /\ InitAgg
    /\ [][NextQueue]_vars
    /\ \A e \in AggExchanges :
           /\ WF_vars(ProcessorShutdown(e) /\ UNCHANGED otherVars)
           /\ WF_vars(ProcessorReceives(e) /\ UNCHANGED otherVars)
           /\ WF_vars(ConnectorSend(e) /\ UNCHANGED otherVars)
           /\ WF_vars(ConnectorSendResumes(e) /\ UNCHANGED otherVars)
    /\ WF_vars(AggregationShutdown /\ UNCHANGED otherVars)

\* the clock advances, the interval of the arbitrage detector fires when
\* its time has come, and a task whose channel holds a value receives it
FairSpecScan ==
    /\ InitSummary
    /\ [][NextScan]_vars
    /\ WF_vars(Tick /\ UNCHANGED otherVars)
    /\ WF_vars(ArbitrageTick /\ UNCHANGED otherVars)
    /\ WF_vars(AggregationReceives /\ UNCHANGED otherVars)
    /\ \A e \in AggExchanges : WF_vars(ProcessorReceives(e) /\ UNCHANGED otherVars)

\* the fields of a TradingPair are public: a pair is built by new or as a
\* struct literal with any two strings
InitText ==
    /\ InitBookVars /\ InitArbVars /\ InitBnVars /\ InitByVars /\ InitAggVars
    /\ InitSrvVars /\ InitConVars
    /\ txt_pair \in [base : Symbols, quote : Symbols]
    /\ txt_pair_text = {}
    /\ txt_pair_parsed = {}
    /\ txt_exchange \in ExchangeVariants
    /\ txt_exchange_text = {}
    /\ txt_exchange_parsed = {}

SpecText == InitText /\ [][NextText]_vars

SpecServer == InitBook /\ [][NextServer]_vars

SpecCon == InitBook /\ [][NextCon]_vars

(***************************************************************************)
(* Properties of the order books.                                          *)
(***************************************************************************)
lastCall == IF history = <<>> THEN [op |-> "new", levels |-> <<>>, max_depth |-> 0]
            ELSE history[Len(history)]

SeqValues(seq) == {seq[i] : i \in 1..Len(seq)}

BookKeys == {<<l.price, l.exchange>> : l \in Levels}

At(lvl, pe) == lvl.price = pe[1] /\ lvl.exchange = pe[2]

\* the containers of the two implementations, as sets of stored levels
Stored == [btb |-> SeqValues(bt_bids), bta |-> SeqValues(bt_asks),
           hmb |-> MapValues(hm_bids), hma |-> MapValues(hm_asks)]

Containers == {"btb", "bta", "hmb", "hma"}

\* every write of the calls since construction or the last clear, in order
RECURSIVE WritesOf(_)
WritesOf(calls) ==
    IF calls = <<>> THEN <<>>
    ELSE LET c == calls[Len(calls)]
         IN IF c.op = "clear" THEN <<>>
            ELSE WritesOf(SubSeq(calls, 1, Len(calls) - 1)) \o c.levels

Writes == WritesOf(history)

\* quantity of the last write to a (price, exchange), -1 when never written
LastWritten(writes, pe) ==
    LET idx == {i \in 1..Len(writes) : At(writes[i], pe)}
    IN IF idx = {} THEN -1
       ELSE writes[CHOOSE i \in idx : \A j \in idx : j <= i].quantity

\* the number of (price, exchange) pairs whose last write is a positive quantity
LiveKeys(writes) == {pe \in BookKeys : LastWritten(writes, pe) > 0}

\* the depth limits of the calls since construction or the last clear
RECURSIVE DepthsOf(_)
DepthsOf(calls) ==
    IF calls = <<>> THEN {}
    ELSE LET c == calls[Len(calls)]
         IN IF c.op = "clear" THEN {}
            ELSE DepthsOf(SubSeq(calls, 1, Len(calls) - 1)) \cup {c.max_depth}

\* no call since the last clear can have trimmed: every depth limit covers
\* all the (price, exchange) pairs ever written
NeverTrimmed ==
    \A d \in DepthsOf(history) :
        Cardinality({pe \in BookKeys : \E i \in 1..Len(Writes) : At(Writes[i], pe)}) <= d

\* C6: after an update with max_depth = N each side of each book holds at
\* most N levels, no retained bid is priced below a bid that the update
\* dropped, and no retained ask is priced above a dropped ask.
C6_DepthTrimming ==
    [][(lastCall'.op = "update" /\ work' > work) =>
        LET N == lastCall'.max_depth
            batch == lastCall'.levels
            \* the levels the update leaves to choose from: the stored ones it does
            \* not write, and its last positive write to each (price, exchange)
            cand(before) == {l \in before : \A i \in 1..Len(batch) :
                                 ~At(batch[i], <<l.price, l.exchange>>)}
                            \cup {l \in SeqValues(batch) :
                                 /\ l.quantity > 0
                                 /\ LastWritten(batch, <<l.price, l.exchange>>) = l.quantity}
        IN /\ Len(bt_bids') <= N /\ Len(bt_asks') <= N
           /\ Cardinality(DOMAIN hm_bids') <= N /\ Cardinality(DOMAIN hm_asks') <= N
           /\ \A c \in {"btb", "hmb"} : \A r \in Stored'[c] : \A d \in cand(Stored[c]) \ Stored'[c] :
                  r.price >= d.price
           /\ \A c \in {"bta", "hma"} : \A r \in Stored'[c] : \A d \in cand(Stored[c]) \ Stored'[c] :
                  r.price <= d.price]_vars

\* C7: levels at one price from different exchanges are separate entries in
\* both books: as long as no depth limit forces a trim, each book holds, for
\* every (price, exchange) whose last write is positive, that level with the
\* quantity last written, holds nothing else, reports their number as its
\* depth, and get_best_n_bids / get_best_n_asks returns all of them.
C7_SeparateEntriesPerExchange ==
    (lastCall.op = "update" /\ NeverTrimmed) =>
        LET live == {[price |-> pe[1], quantity |-> LastWritten(Writes, pe), exchange |-> pe[2]] :
                        pe \in LiveKeys(Writes)}
            n == Cardinality(live)
        IN /\ \A c \in Containers : Stored[c] = live
           /\ Len(bt_bids) = n /\ Cardinality(DOMAIN hm_bids) = n
           /\ SeqValues(BTree_get_best_n_bids(bt_bids, n)) = live
           /\ SeqValues(BTree_get_best_n_asks(bt_asks, n)) = live
           /\ \A r \in HashMap_get_best_n_bids(hm_bids, hm_bid_prices, n) : SeqValues(r) = live
           /\ \A r \in HashMap_get_best_n_asks(hm_asks, hm_ask_prices, n) : SeqValues(r) = live

\* C8: once the last write to a (price, exchange) is a zero quantity, no book
\* holds a level at that price from that exchange; when nothing else was
\* written since construction or the last clear, both sides are empty and
\* the best-price queries return none.
C8_ZeroQuantityIsDelete ==
    \A pe \in BookKeys :
        (lastCall.op = "update" /\ LastWritten(lastCall.levels, pe) = 0) =>
            /\ \A c \in Containers : \A l \in Stored[c] : ~At(l, pe)
            /\ (\A i \in 1..Len(Writes) : At(Writes[i], pe)) =>
                  /\ \A c \in Containers : Stored[c] = {}
                  /\ BTree_get_best_bid(bt_bids) = NoLevel
                  /\ BTree_get_best_ask(bt_asks) = NoLevel
                  /\ HashMap_get_best_bid(hm_bids, hm_bid_prices) = {NoLevel}
                  /\ HashMap_get_best_ask(hm_asks, hm_ask_prices) = {NoLevel}

\* C8 witness: a positive quantity was written at a price for an exchange,
\* then a zero quantity at the same price for the same exchange, by a later
\* call, and the level that was the only one is gone.
C8_Witness ==
    /\ Len(history) = 2
    /\ history[1] = [op |-> "update", max_depth |-> 2,
                     levels |-> <<[price |-> 20, quantity |-> 2, exchange |-> "binance"]>>]
    /\ history[2] = [op |-> "update", max_depth |-> 2,
                     levels |-> <<[price |-> 20, quantity |-> 0, exchange |-> "binance"]>>]
    /\ hm_bids = EmptyMap /\ bt_bids = <<>>

\* C9: last write wins: when the last of the writes to a (price, exchange)
\* has a positive quantity and no depth limit forces a trim, each book holds
\* exactly one level at that price for that exchange, with that quantity.
C9_LastWriteWins ==
    \A pe \in BookKeys :
        (lastCall.op = "update" /\ NeverTrimmed /\ LastWritten(lastCall.levels, pe) > 0) =>
            \A c \in Containers :
                {l \in Stored[c] : At(l, pe)}
                    = {[price |-> pe[1], quantity |-> LastWritten(lastCall.levels, pe), exchange |-> pe[2]]}

(***************************************************************************)
(* Properties of the arbitrage detector.                                   *)
(***************************************************************************)
TopBids(pair) == {summaries[pair][k].bids[1] : k \in {i \in 1..Len(summaries[pair]) : summaries[pair][i].bids # <<>>}}

TopAsks(pair) == {summaries[pair][k].asks[1] : k \in {i \in 1..Len(summaries[pair]) : summaries[pair][i].asks # <<>>}}

\* some venue asks less than a different venue bids
CrossVenue(pair) ==
    \E a \in TopAsks(pair), b \in TopBids(pair) : a.exchange # b.exchange /\ a.price < b.price

\* the highest bid over the venues, the earliest summary winning a tie
HighestBid(pair) ==
    LET idx == {i \in 1..Len(summaries[pair]) : summaries[pair][i].bids # <<>>}
        top == CHOOSE k \in idx : \A j \in idx :
                   \/ summaries[pair][k].bids[1].price > summaries[pair][j].bids[1].price
                   \/ summaries[pair][k].bids[1].price = summaries[pair][j].bids[1].price /\ k <= j
    IN summaries[pair][top].bids[1]

\* the lowest ask over the venues, the earliest summary winning a tie
LowestAsk(pair) ==
    LET idx == {i \in 1..Len(summaries[pair]) : summaries[pair][i].asks # <<>>}
        top == CHOOSE k \in idx : \A j \in idx :
                   \/ summaries[pair][k].asks[1].price < summaries[pair][j].asks[1].price
                   \/ summaries[pair][k].asks[1].price = summaries[pair][j].asks[1].price /\ k <= j
    IN summaries[pair][top].asks[1]

OpportunitiesOf(pair) == {i \in 1..Len(opportunities) : opportunities[i].symbol = pair}

OneSummaryPerVenue(pair) ==
    \A i, j \in 1..Len(summaries[pair]) :
        \A x \in SeqValues(summaries[pair][i].bids \o summaries[pair][i].asks),
           y \in SeqValues(summaries[pair][j].bids \o summaries[pair][j].asks) :
            x.exchange = y.exchange => i = j

\* C5: no opportunity buys and sells on the same venue, even when each
\* venue contributes a single summary.
C5_DistinctVenues ==
    detected =>
        \A i \in 1..Len(opportunities) :
            OneSummaryPerVenue(opportunities[i].symbol) =>
                opportunities[i].buy_exchange # opportunities[i].sell_exchange

(***************************************************************************)
(* Properties of the connectors.                                           *)
(***************************************************************************)
\* a snapshot is on its way: its signal is queued, or the reader is about
\* to connect and queue it
Resyncing ==
    \/ \E i \in 1..Len(bn_ws) : bn_ws[i].kind = "binary"
    \/ bn_reader \in {"connecting", "signalling"}

\* C1: once the Binance processor has handled a depth update that starts
\* beyond last_update_id + 1, the connector is resynchronising, and the next
\* update it forwards is a snapshot, not a delta.
C1_GapForcesResync ==
    [][/\ (~bn_gap /\ bn_gap') => Resyncing'
       /\ (bn_gap /\ Len(bn_forwarded') > Len(bn_forwarded)) =>
              bn_forwarded'[Len(bn_forwarded')].kind = "snapshot"]_vars

NoSkip(forwarded) ==
    \A i \in 2..Len(forwarded) :
        forwarded[i].kind = "delta" => forwarded[i].first <= forwarded[i - 1].final + 1

\* C2: every delta a connector forwards starts at most one past the final
\* id of the update forwarded before it, be that a delta or a snapshot.
C2_NoSkippedSequence == NoSkip(bn_forwarded) /\ NoSkip(by_forwarded)

\* C12: while streaming (a snapshot and a first delta have been forwarded),
\* a delta is forwarded only if its first_update_id is exactly one past the
\* final_update_id of the delta accepted before it.
C12_ExactSuccessor ==
    \A i \in 3..Len(bn_forwarded) :
        (/\ bn_forwarded[i].kind = "delta"
         /\ bn_forwarded[i - 1].kind = "delta"
         /\ \E j \in 1..(i - 2) : bn_forwarded[j].kind = "snapshot")
            => bn_forwarded[i].first = bn_forwarded[i - 1].final + 1

(***************************************************************************)
(* Properties of the aggregator.                                           *)
(***************************************************************************)
AllTasksDone == \A t \in Tasks : task[t] \in {"unspawned", "done"}

C10_MonotoneTimestamps ==
    subscribed =>
        \A i, j \in 1..Len(summary_channel) :
            (i < j /\ summary_channel[i].symbol = summary_channel[j].symbol) =>
                summary_channel[i].timestamp <= summary_channel[j].timestamp

(***************************************************************************)
(* Properties of the published summaries.                                  *)
(***************************************************************************)
\* the index in processed of the latest update of venue e among the first i
LatestFrom(e, i) ==
    LET js == {j \in 1..i : processed[j].exchange = e}
    IN IF js = {} THEN 0 ELSE CHOOSE j \in js : \A k \in js : k <= j

\* the best prices a merged view of the venues' books has after the first
\* i updates: each venue's book holds at least the levels of its latest update
MergedBidPrices(i) ==
    {processed[LatestFrom(e, i)].bids[n].price :
        <<e, n>> \in {<<e, n>> \in AggExchanges \X (1..1) :
                        LatestFrom(e, i) # 0 /\ n <= Len(processed[LatestFrom(e, i)].bids)}}

MergedAskPrices(i) ==
    {processed[LatestFrom(e, i)].asks[n].price :
        <<e, n>> \in {<<e, n>> \in AggExchanges \X (1..1) :
                        LatestFrom(e, i) # 0 /\ n <= Len(processed[LatestFrom(e, i)].asks)}}

\* C11: every published Summary carries the merged best levels of all
\* venues' books, best first: its first bid is at least as high, and its
\* first ask at least as low, as every level a venue's book holds, and its
\* spread is the best ask price minus the best bid price of that view
C11_MergedSummary ==
    \A i \in 1..Len(summary_channel) :
        LET summary == summary_channel[i]
        IN /\ \A p \in MergedBidPrices(i) : summary.bids # <<>> /\ summary.bids[1].price >= p
           /\ \A p \in MergedAskPrices(i) : summary.asks # <<>> /\ summary.asks[1].price <= p
           /\ (MergedBidPrices(i) # {} /\ MergedAskPrices(i) # {})
                  => \A b \in MergedBidPrices(i) : \A a \in MergedAskPrices(i) :
                         summary.spread <= a - b

(***************************************************************************)
(* Properties of the Binance snapshot hand-off.                            *)
(***************************************************************************)
\* positions of the snapshots among the forwarded updates
SnapshotsIn(forwarded) == {i \in 1..Len(forwarded) : forwarded[i].kind = "snapshot"}

\* the processor is about to handle a depth update that ends at or before
\* the lastUpdateId of the latest snapshot
StaleDeltaAtHead ==
    /\ bn_ws # <<>>
    /\ Head(bn_ws).kind = "text"
    /\ Head(bn_ws).parses
    /\ \E i \in SnapshotsIn(bn_forwarded) :
           /\ \A j \in SnapshotsIn(bn_forwarded) : j <= i
           /\ Head(bn_ws).final <= bn_forwarded[i].final

\* the delta forwarded right after a snapshot covers lastUpdateId + 1
HandOff(forwarded) ==
    \A i \in 2..Len(forwarded) :
        (forwarded[i - 1].kind = "snapshot" /\ forwarded[i].kind = "delta")
            => /\ forwarded[i].first <= forwarded[i - 1].final + 1
               /\ forwarded[i - 1].final + 1 <= forwarded[i].final

\* C13: after a snapshot with lastUpdateId = U, handling a delta with
\* final_update_id <= U forwards nothing and leaves last_update_id as it
\* was, and the first delta forwarded after the snapshot satisfies
\* first_update_id <= U + 1 <= final_update_id.
C13_SnapshotHandOff ==
    [][/\ (StaleDeltaAtHead /\ bn_ws' = Tail(bn_ws))
              => (bn_forwarded' = bn_forwarded /\ last_update_id' = last_update_id)
       /\ HandOff(bn_forwarded')]_vars

\* a snapshot was followed by a delta that overlaps it, and a later delta
\* was discarded as stale
C13_Witness ==
    /\ Len(bn_forwarded) = 2
    /\ bn_forwarded[1].kind = "snapshot"
    /\ bn_forwarded[2].kind = "delta"
    /\ bn_forwarded[2].first <= bn_forwarded[1].final
    /\ bn_log = "ignored"

\* C14: the first update the Binance connector emits after it connects is a
\* snapshot; when the snapshot fetch fails no delta is forwarded in its place.
C14_SnapshotFirst == bn_forwarded # <<>> => bn_forwarded[1].kind = "snapshot"

\* C15: after a failed snapshot fetch the connector emits a snapshot in the
\* end, unless the websocket connection has dropped in between.
C15_SnapshotRetried ==
    (bn_log = "snapshot_failed") ~> (bn_log = "snapshot" \/ bn_reader # "streaming")

\* C16: reconnection is bounded: a connector makes at most
\* max_reconnect_attempts failed connection attempts in a row.
C16_BoundedReconnect == bn_failed_attempts <= max_reconnect_attempts

(***************************************************************************)
(* Properties of the per-exchange queues.                                  *)
(***************************************************************************)
\* what one step may do to the queue of e: leave it, append to it, hand its
\* head to the running processor, or lose it with the processor that owns
\* the receiver
QueueStep(e) ==
    \/ price_level_queue'[e] = price_level_queue[e]
    \/ /\ Len(price_level_queue[e]) < QueueCap
       /\ \E i \in {Len(price_level_queue'[e])} :
              i > 0 /\ price_level_queue'[e] = Append(price_level_queue[e], price_level_queue'[e][i])
    \/ /\ price_level_queue[e] # <<>>
       /\ task[Processor(e)] = "running"
       /\ price_level_queue'[e] = Tail(price_level_queue[e])
       /\ \/ processed' = Append(processed, Head(price_level_queue[e]))
          \/ health_status'[e].error_message = "Failed to send summary"
    \/ /\ task[Processor(e)] # "done"
       /\ task'[Processor(e)] = "done"
       /\ price_level_queue'[e] = <<>>

\* an update a connector has produced is in the queue or waits for room, and
\* a waiting update leaves only into the queue or when the receiver is gone
SendStep(e) ==
    /\ (conn_update[e] = NoUpdate /\ conn_update'[e] # NoUpdate)
           => Len(price_level_queue[e]) >= QueueCap
    /\ (conn_update[e] # NoUpdate /\ conn_update'[e] # conn_update[e])
           => \/ price_level_queue'[e] = Append(price_level_queue[e], conn_update[e])
              \/ task[Processor(e)] = "done"

Accepted ==
    produced' = produced + 1
        => \E e \in AggExchanges :
               \/ /\ Len(price_level_queue'[e]) = Len(price_level_queue[e]) + 1
                  /\ price_level_queue'[e][Len(price_level_queue'[e])].exchange = e
               \/ conn_update[e] = NoUpdate /\ conn_update'[e] # NoUpdate

\* C17: the queue of an exchange never drops an update: a connector whose
\* queue is full waits, an update leaves the queue only into the running
\* price level processor, and the updates in the queue are all received in
\* the end as long as that processor is running.
C17_NoSilentDrop ==
    /\ [][Accepted /\ \A e \in AggExchanges : QueueStep(e) /\ SendStep(e)]_vars
    /\ \A e \in AggExchanges :
           (price_level_queue[e] # <<>>)
               ~> (price_level_queue[e] = <<>> \/ task[Processor(e)] # "running")

\* the queue is full and the connector waits with an update it has produced,
\* while the processor is running
C17_Witness ==
    /\ Len(price_level_queue["binance"]) = QueueCap
    /\ conn_update["binance"] # NoUpdate
    /\ task[Processor("binance")] = "running"

(***************************************************************************)
(* Properties of the order of the updates.                                 *)
(***************************************************************************)
\* the deltas among the forwarded updates, as the frames they were built from
DeltaFrames(forwarded) ==
    LET F[i \in 0..Len(forwarded)] ==
            IF i = 0 THEN <<>>
            ELSE IF forwarded[i].kind = "delta"
                 THEN Append(F[i - 1], [kind |-> "text", parses |-> TRUE,
                                        first |-> forwarded[i].first, final |-> forwarded[i].final])
                 ELSE F[i - 1]
    IN F[Len(forwarded)]

\* a is b with some elements left out, the others in the order of b
RECURSIVE IsSubsequence(_, _)
IsSubsequence(a, b) ==
    IF a = <<>> THEN TRUE
    ELSE IF b = <<>> THEN FALSE
    ELSE IF Head(a) = Head(b) THEN IsSubsequence(Tail(a), Tail(b))
    ELSE IsSubsequence(a, Tail(b))

ProcessorTakes(kind) == bn_ws # <<>> /\ Head(bn_ws).kind = kind /\ bn_ws' = Tail(bn_ws)

\* the place in bn_read of the text frame at the head of the channel: the
\* text frames in the channel are the ones read last
HeadRead == Len(bn_read) - Len(SelectSeq(bn_ws, LAMBDA m : m.kind = "text")) + 1

\* the processor, streaming, has just dropped a depth update that could not
\* be parsed and that continued the sequence, and now takes the depth update
\* that follows it in the stream
FollowsDropped ==
    /\ bn_forwarded # <<>>
    /\ bn_log = "parse_error"
    /\ ProcessorTakes("text")
    /\ Head(bn_ws).parses
    /\ HeadRead > 1
    /\ ~bn_read[HeadRead - 1].parses
    /\ bn_read[HeadRead - 1].first = last_update_id + 1
    /\ Head(bn_ws).first = bn_read[HeadRead - 1].final + 1

\* C19: a malformed frame is dropped without being fatal: the well-formed
\* update that follows it in the stream is forwarded, or else the connector
\* resynchronises so that later updates can be.
C19_MalformedNotFatal ==
    [][FollowsDropped
           => \/ bn_forwarded' = Append(bn_forwarded, [kind |-> "delta",
                                                       first |-> Head(bn_ws).first,
                                                       final |-> Head(bn_ws).final])
              \/ Resyncing']_vars

C21_HealthStamp ==
    [][\A e \in DOMAIN health_status :
           update_count'[e] = update_count[e] + 1
               => health_status'[e] =
                      [is_healthy |-> TRUE, last_update |-> now, error_message |-> "none"]]_vars

\* an update was processed some time after the start and stamped the status
C21_Witness ==
    \E e \in DOMAIN health_status :
        /\ update_count[e] > 0
        /\ health_status[e].is_healthy
        /\ health_status[e].last_update > StaleAfter
        /\ health_status[e].error_message = "none"

\* C22: once an exchange has processed at least one update, get_metrics of
\* that exchange returns a record whose update counter and last_update
\* reflect it.
C22_MetricsCounted ==
    \A e \in AggExchanges :
        update_count[e] > 0
            => \E metric \in get_metrics(e) :
                   /\ metric.updates_per_second[1] = update_count[e]
                   /\ metric.last_update = health_status[e].last_update

(***************************************************************************)
(* stop().                                                                 *)
(***************************************************************************)
\* a step in which stop() sends the shutdown signal and returns Ok
StopReturnsOk ==
    /\ stop_result' = "ok"
    /\ \E t \in Listeners : shutdown_rx'[t] /\ ~shutdown_rx[t]

\* C23: stop() broadcasts the shutdown and returns only after every spawned
\* task has exited or a grace window has elapsed: when it returns, all tasks
\* are done or time has passed during the call.
C23_StopWaits == [][StopReturnsOk => (AllTasksDone' \/ now' > now)]_vars

(***************************************************************************)
(* The fields of an opportunity.                                           *)
(***************************************************************************)
\* C24: every emitted opportunity buys at the lowest best ask and sells at
\* the highest best bid among the venues of its pair: buy_exchange and
\* buy_price are that ask's venue and price, sell_exchange and sell_price
\* are that bid's, sell_price > buy_price, volume is the smaller of the two
\* level quantities and profit_percentage is
\* (sell_price - buy_price) / buy_price * 100.
C24_BestPrices ==
    detected =>
        \A i \in 1..Len(opportunities) :
            LET o == opportunities[i]
            IN \E ask \in TopAsks(o.symbol), bid \in TopBids(o.symbol) :
                   /\ \A other \in TopAsks(o.symbol) : ask.price <= other.price
                   /\ \A other \in TopBids(o.symbol) : bid.price >= other.price
                   /\ o.buy_exchange = ask.exchange /\ o.buy_price = ask.price
                   /\ o.sell_exchange = bid.exchange /\ o.sell_price = bid.price
                   /\ o.sell_price > o.buy_price
                   /\ o.volume = (IF bid.quantity < ask.quantity THEN bid.quantity ELSE ask.quantity)
                   /\ o.profit_percentage.num = (o.sell_price - o.buy_price) * 100
                   /\ o.profit_percentage.den = o.buy_price

\* an opportunity between two venues whose asks, bids and quantities differ
C24_Witness ==
    /\ detected
    /\ \E i \in 1..Len(opportunities) :
           LET o == opportunities[i]
           IN /\ o.buy_exchange # o.sell_exchange
              /\ \E other \in TopAsks(o.symbol) : other.price > o.buy_price
              /\ \E other \in TopBids(o.symbol) : other.price < o.sell_price
              /\ \E ask \in TopAsks(o.symbol), bid \in TopBids(o.symbol) :
                     ask.quantity # bid.quantity

(***************************************************************************)
(* The two order books side by side.                                       *)
(***************************************************************************)
\* C25: BTreeOrderBook and HashMapOrderBook are observationally equivalent:
\* after every sequence of update_bids, update_asks and clear calls both
\* report the same bid and ask depth, the same best bid and ask, the same
\* best-n lists and the same spread.
C25_SameObservations ==
    /\ Len(bt_bids) = Cardinality(DOMAIN hm_bids)
    /\ Len(bt_asks) = Cardinality(DOMAIN hm_asks)
    /\ HashMap_get_best_bid(hm_bids, hm_bid_prices) = {BTree_get_best_bid(bt_bids)}
    /\ HashMap_get_best_ask(hm_asks, hm_ask_prices) = {BTree_get_best_ask(bt_asks)}
    /\ \A n \in 0..(MaxDepthArg + 1) :
           /\ HashMap_get_best_n_bids(hm_bids, hm_bid_prices, n) = {BTree_get_best_n_bids(bt_bids, n)}
           /\ HashMap_get_best_n_asks(hm_asks, hm_ask_prices, n) = {BTree_get_best_n_asks(bt_asks, n)}
    /\ HashMap_get_spread(hm_bids, hm_bid_prices, hm_asks, hm_ask_prices)
           = {BTree_get_spread(bt_bids, bt_asks)}

\* C26: an update with max_depth = 0 keeps no orders: after update_bids or
\* update_asks with max_depth 0 the depth of that side is 0 in both books,
\* whether or not the side held levels before the call.
C26_ZeroDepthKeepsNothing ==
    (lastCall.op = "update" /\ lastCall.max_depth = 0) =>
        /\ Len(bt_bids) = 0 /\ Len(bt_asks) = 0
        /\ Cardinality(DOMAIN hm_bids) = 0 /\ Cardinality(DOMAIN hm_asks) = 0

Better(a, b, side) == IF side = "bids" THEN BidBefore(a, b) ELSE AskBefore(a, b)

\* result is the n best of the stored levels, best first: its length is
\* min(n, depth), no level comes after a worse one and no stored level left
\* out is better than one returned
BestFirst(result, stored, depth, n, side) ==
    /\ Len(result) = (IF n < depth THEN n ELSE depth)
    /\ \A i \in 1..Len(result) : result[i] \in stored
    /\ \A i, j \in 1..Len(result) : i < j => ~Better(result[j], result[i], side)
    /\ \A l \in stored \ SeqValues(result) : \A i \in 1..Len(result) : ~Better(l, result[i], side)

\* C27: get_best_n_bids(n) and get_best_n_asks(n) return the n best levels
\* of the side, best first (bids by descending price, asks by ascending
\* price), and the length of the result is min(n, depth of the side).
C27_BestNLevels ==
    \A n \in 0..(MaxDepthArg + 1) :
        /\ BestFirst(BTree_get_best_n_bids(bt_bids, n), Stored.btb, Len(bt_bids), n, "bids")
        /\ BestFirst(BTree_get_best_n_asks(bt_asks, n), Stored.bta, Len(bt_asks), n, "asks")
        /\ \A r \in HashMap_get_best_n_bids(hm_bids, hm_bid_prices, n) :
               BestFirst(r, Stored.hmb, Cardinality(DOMAIN hm_bids), n, "bids")
        /\ \A r \in HashMap_get_best_n_asks(hm_asks, hm_ask_prices, n) :
               BestFirst(r, Stored.hma, Cardinality(DOMAIN hm_asks), n, "asks")

(***************************************************************************)
(* When a Summary is published.                                            *)
(***************************************************************************)
\* the update behind the i-th published Summary changes nothing in a merged
\* view of the books: it carries no level at all
ChangesNothing(i) == processed[i].bids = <<>> /\ processed[i].asks = <<>>

\* C28: a Summary is published for an update only if applying the update
\* changed the merged top-N window: no published Summary comes from an
\* update that changes nothing, such as an empty batch.
C28_PublishedOnlyOnChange ==
    /\ Len(processed) = Len(summary_channel)
    /\ \A i \in 1..Len(processed) : ~ChangesNothing(i)

(***************************************************************************)
(* The summary broadcast and a slow subscriber.                            *)
(***************************************************************************)
\* summaries sent that the aggregation processor has not received
Unread == Len(summary_channel) - agg_read

ValidPair(pair) ==
    /\ to_uppercase(pair.base) = pair.base /\ to_uppercase(pair.quote) = pair.quote
    /\ \A i \in 1..Len(pair.base) : pair.base[i] # "/"
    /\ \A i \in 1..Len(pair.quote) : pair.quote[i] # "/"

\* C30: parsing the Display form of a valid TradingPair yields the same
\* pair, and parsing the Display form of an Exchange variant yields the same
\* variant.
C30_TextRoundTrip ==
    /\ ValidPair(txt_pair) => \A r \in txt_pair_parsed : r = Ok(txt_pair)
    /\ \A r \in txt_exchange_parsed : r = Ok(txt_exchange)

\* a valid pair with two different symbols and the exchange with the longest
\* name have been written and parsed
C30_Witness ==
    /\ ValidPair(txt_pair)
    /\ txt_pair.base # <<>> /\ txt_pair.quote # <<>> /\ txt_pair.base # txt_pair.quote
    /\ txt_pair_parsed # {}
    /\ txt_exchange = "CryptoDotCom"
    /\ txt_exchange_parsed # {}

(***************************************************************************)
(* Exchanges without a connector.                                          *)
(***************************************************************************)
\* C31: enabling an exchange that has no connector implementation does not
\* block or fail the start: start() can run and succeeds, and afterwards the
\* processor of every enabled exchange, the connector of every enabled
\* exchange that has one and the three shared tasks are running.
C31_MissingConnectorHarmless ==
    /\ ~started => ENABLED Start
    /\ started =>
           /\ \A e \in enabled : task[Processor(e)] = "running"
           /\ \A e \in enabled \cap WithConnector : task[Connector(e)] = "running"
           /\ \A e \in enabled \ WithConnector : task[Connector(e)] = "unspawned"
           /\ \A t \in {AggregationProcessor, ArbitrageDetector, HealthMonitor} : task[t] = "running"

\* started with an exchange that has no connector, and an update of an
\* exchange that has one has been processed
C31_Witness ==
    /\ started
    /\ enabled \ WithConnector # {}
    /\ \E e \in enabled \cap WithConnector : update_count[e] > 0 /\ health_status[e].is_healthy

(***************************************************************************)
(* The arbitrage detector of the aggregator.                               *)
(***************************************************************************)
\* the latest summaries the aggregation processor has received from two
\* different exchanges cross: one bids more than the other asks, and the gap
\* and the quantities meet the lowest thresholds
CrossInSummaries ==
    \E buy, sell \in AggExchanges :
        /\ buy # sell
        /\ LatestFrom(buy, agg_read) # 0 /\ LatestFrom(sell, agg_read) # 0
        /\ LET asks == processed[LatestFrom(buy, agg_read)].asks
               bids == processed[LatestFrom(sell, agg_read)].bids
           IN /\ asks # <<>> /\ bids # <<>>
              /\ bids[1].price > asks[1].price
              /\ ProfitGate(bids[1].price - asks[1].price, asks[1].price, 1)
              /\ Min(bids[1].quantity, asks[1].quantity) >= 1

\* C32: when the current summaries hold a cross between two different
\* exchanges that meets the thresholds, the detector task eventually sends
\* an opportunity on the arbitrage broadcast.
C32_CrossIsReported == CrossInSummaries ~> (arbitrage_channel # <<>>)

(***************************************************************************)
(* Publishing without a receiver.                                          *)
(***************************************************************************)
\* the processor of e takes the update at the head of its channel and hands
\* it to process_price_level_update
ProcessesHead(e) ==
    /\ task[Processor(e)] = "running" /\ task'[Processor(e)] = "running"
    /\ price_level_queue[e] # <<>>
    /\ price_level_queue'[e] = Tail(price_level_queue[e])

\* C33: process_price_level_update on a well-formed update returns Ok even
\* when the summary broadcast has no receiver at the time of the call, and
\* the Summary is in the channel for a receiver that subscribes afterwards.
C33_OkWithoutReceiver ==
    [][\A e \in AggExchanges :
           (ProcessesHead(e) /\ ~SummaryReceivers)
               => /\ update_count'[e] = update_count[e] + 1
                  /\ health_status'[e].error_message = "none"
                  /\ summary_channel' = Append(summary_channel, SummaryOf(Head(price_level_queue[e])))]_vars

(***************************************************************************)
(* One candidate per pair.                                                 *)
(***************************************************************************)
\* the highest bid and the lowest ask of the pair exist and their smaller
\* quantity is below the volume threshold
BestFailsVolume(pair) ==
    /\ Len(summaries[pair]) >= 2
    /\ TopBids(pair) # {} /\ TopAsks(pair) # {}
    /\ Min(HighestBid(pair).quantity, LowestAsk(pair).quantity) < min_volume_threshold

\* C34: detect_opportunities evaluates only the highest best bid and the
\* lowest best ask of each pair: a call emits at most one opportunity per
\* pair, and none for a pair whose best levels fail the volume threshold,
\* whatever the other venues offer.
C34_OnlyBestLevels ==
    detected =>
        \A pair \in DOMAIN summaries :
            /\ Cardinality(OpportunitiesOf(pair)) <= 1
            /\ BestFailsVolume(pair) => OpportunitiesOf(pair) = {}

\* the best bid fails the volume threshold, a lower bid of another venue
\* would have passed every gate, and nothing was emitted
C34_Witness ==
    /\ detected
    /\ \E pair \in DOMAIN summaries :
           /\ BestFailsVolume(pair)
           /\ OpportunitiesOf(pair) = {}
           /\ \E bid \in TopBids(pair), ask \in TopAsks(pair) :
                  /\ bid.exchange # ask.exchange
                  /\ bid.price > ask.price
                  /\ ProfitGate(bid.price - ask.price, ask.price, min_profit_threshold)
                  /\ Min(bid.quantity, ask.quantity) >= min_volume_threshold

\* C37: a venue delta entry with quantity 0 is passed on by the connector as
\* a quantity-0 level of the PriceLevelUpdate it forwards, so that the
\* downstream book deletes that level
C37_RemovalPassedOn ==
    [][(by_ws # <<>> /\ Len(by_forwarded') > Len(by_forwarded))
       => \A i \in 1..Len(Head(by_ws).b) :
              Head(by_ws).b[i].quantity = 0
              => \E j \in 1..Len(by_forwarded'[Len(by_forwarded')].bids) :
                     /\ by_forwarded'[Len(by_forwarded')].bids[j].price = Head(by_ws).b[i].price
                     /\ by_forwarded'[Len(by_forwarded')].bids[j].quantity = 0]_vars

\* C40: stop() can be called in any lifecycle state without error: it returns
\* Ok after start(), before start() was called, and again after all tasks
\* have exited
C40_StopNeverFails == stop_result # "error"

(***************************************************************************)
(* Properties of the WebSocket server.                                     *)
(***************************************************************************)
\* the connections being served: counted by the accept loop and not ended
Served == {id \in 1..MaxClients : srv_conn[id] \in {"accepted", "open"}}

\* C38: the connection counter always equals the number of connections
\* currently being served (every accepted connection that ends, also by a
\* failed handshake, releases its slot), so a client is turned away only
\* while max_connections connections are being served
C38_CountIsServed ==
    /\ connection_count = Cardinality(Served)
    /\ \A id \in 1..MaxClients :
           (srv_conn[id] = "none" /\ Cardinality(Served) < max_connections)
           => connection_count < max_connections

\* C39: the server keeps forwarding after lag: while a client is connected,
\* a published summary its receiver has not taken yet always finds the
\* forwarding task running
C39_ForwardsAfterLag ==
    (srv_read < published /\ \E id \in 1..MaxClients : srv_conn[id] = "open")
    => broadcast_task = "running"

(***************************************************************************)
(* Properties of concurrent calls on clones of one HashMapOrderBook.       *)
(***************************************************************************)
\* the next step of the call clone t is in
Proceeds(t) == ConUpdateBids(t, <<>>, 0) \/ ConGetBestBid(t) \/ ConClear(t)

\* C35: concurrent calls on clones of one HashMapOrderBook never deadlock:
\* while some call is under way, at least one call under way can take its
\* next step
C35_NoDeadlock ==
    (\E t \in {"c1", "c2"} : con_pc[t] # "idle")
    => \E t \in {"c1", "c2"} : con_pc[t] # "idle" /\ ENABLED Proceeds(t)

\* C36: a reader never sees the price index out of step with the level
\* map: when get_best_bid returns while the bid side holds a level, it
\* returns a stored level with the best price of that side
C36_BestIsCurrent ==
    [][\A t \in {"c1", "c2"} :
          (Len(con_result'[t]) > Len(con_result[t]) /\ hm_bids # EmptyMap)
          => LET best == con_result'[t][Len(con_result'[t])]
             IN /\ best \in MapValues(hm_bids)
                /\ \A b \in MapValues(hm_bids) : b.price <= best.price]_vars

====
